---- MODULE Spec2Model ----
(***************************************************************************)
(* State-machine model of the variant / submission / grading orchestration *)
(* module (question.js, stored as                                          *)
(* src/database/tables/assessment_access_rules.pg, lines 21-787).          *)
(*                                                                         *)
(* Every public operation runs as a task p.  pc[p] names the asynchronous  *)
(* call the task performs next; one action performs that call and runs the *)
(* callback the source attaches to it, up to the next asynchronous call.   *)
(* loc[p] holds the operation's arguments and local variables, plus a      *)
(* record of what the operation did (plugin calls made, rows inserted,     *)
(* messages sent, transaction begin/end), kept until the caller returns.   *)
(*                                                                         *)
(* The database tables are sequences of rows in insertion order.  A row    *)
(* written inside a transaction carries tx = p until that transaction      *)
(* ends: commit clears the mark, rollback deletes the row.                 *)
(***************************************************************************)
EXTENDS Integers, Sequences, FiniteSets, TLC

\* ------------------------------------------------------------------ bounds
\* rows a table may hold, and messages the queue may hold, before callers
\* stop making the calls that add to it
MaxVariants == 2
MaxSubmissions == 2
MaxJobs == 2
MaxQueue == 2
\* rows table errors may hold before callers stop asking for a rendering
MaxErrorRows == 4

\* ------------------------------------------------------------ value domains
\* the null of an id-valued field (ids start at 1), the undefined of a
\* string-valued field and the empty object {}
NULL == 0
UNDEF == "undefined"
EMPTY == "{}"
\* client = null: the statement runs outside any transaction; a row's tx is
\* NOCLIENT once it is committed
NOCLIENT == "none"
\* err = null in a callback
NOERR == "ok"

Tasks == {"t1", "t2"}
SeqTasks == {"t1"}
SlotIds == {1}
QuestionIds == {1}

\* caller-supplied seed values and the values Math.random can synthesize
CallerSeeds == {"seed_c"}
RandomSeeds == {"seed_r"}

Error(msg, fatal) == [message |-> msg, fatal |-> fatal]

\* the lists of course errors a plugin call can return: none, one error
\* (fatal or not), or a non-fatal error followed by a fatal one
ErrLists(msg) ==
  { <<>>, <<Error(msg, FALSE)>>, <<Error(msg, TRUE)>>,
    <<Error(msg, FALSE), Error(msg, TRUE)>> }

NoData == [params |-> UNDEF, true_answer |-> UNDEF, options |-> UNDEF]

GenerateData ==
  { [params |-> "gen_params", true_answer |-> "gen_true_answer", options |-> "gen_options"],
    NoData }

PrepareData ==
  { [params |-> "prep_params", true_answer |-> "prep_true_answer", options |-> "prep_options"],
    NoData }

\* the answers a student can submit
Answers == {"a1"}

\* the data object of a parse or grade result; data = {} is NoPluginData
PluginData(submitted_answer, raw_submitted_answer, gradable, score) ==
  [ submitted_answer |-> submitted_answer,
    raw_submitted_answer |-> raw_submitted_answer,
    format_errors |-> IF gradable = UNDEF THEN UNDEF ELSE "format_errors",
    gradable |-> gradable,
    score |-> score,
    partial_scores |-> IF score = UNDEF THEN UNDEF ELSE "partial_scores",
    feedback |-> IF score = UNDEF THEN UNDEF ELSE "feedback" ]

NoPluginData == PluginData(UNDEF, UNDEF, UNDEF, UNDEF)

\* what parse can return: "echo" stands for the value the submission handed
\* to parse holds in that field
ParseData ==
  { PluginData("normalized", raw, gradable, UNDEF) :
      raw \in {"echo", "altered"}, gradable \in {"true", "false"} }

\* a parse that returns the answer as it got it, and a grade that scores it
ParseEcho == [courseErrs |-> <<>>, data |-> PluginData("echo", "echo", "true", UNDEF)]

GradeScored == [courseErrs |-> <<>>, data |-> PluginData("graded_answer", UNDEF, "true", "1.0")]

GradeData ==
  { PluginData("graded_answer", UNDEF, gradable, "1.0") : gradable \in {"true", "false"} }

\* the browser sessions, each with its AppModel
Sessions == {"s1", "s2"}

\* what the attribute userRole can hold: nothing yet ("null"), a role of
\* roleList, or a value that is no role
UserRoles == {"null", "Superuser", "Instructor", "TA", "Student", "Professor"}

\* the operations hasPermission is asked about: those it knows and one it
\* does not
Operations ==
  {"overrideScore", "seeQID", "changeUser", "changeMode", "seeAvailDate", "deleteCourse"}

\* ------------------------------------------------------------------- state
VARIABLES
  variants,      \* table variants
  submissions,   \* table submissions
  grading_jobs,  \* table grading_jobs
  errors,        \* table errors (CourseError rows)
  queue,         \* the messages sent to the external grading queue
  module,        \* what the question's module returns from each capability
  question,      \* the question of the course: its row in table questions
  messageQueue,  \* "up": a message sent reaches the queue; "down": it is lost
  pc,            \* pc[p]: the call task p performs next
  loc,           \* loc[p]: arguments, locals and the record of the operation
  app            \* app[s]: the AppModel of the frontend in browser session s

tables == <<variants, submissions, grading_jobs, errors>>

\* what no operation of the server changes: the course's module and
\* question, the queue's transport, and the frontend's models
config == <<module, question, messageQueue, app>>

vars == <<tables, queue, config, pc, loc>>

\* ----------------------------------------------------------------- helpers
Max(S) == CHOOSE x \in S : \A y \in S : y <= x

Ids(table) == {table[i].id : i \in DOMAIN table}

NextId(table) == IF table = <<>> THEN 1 ELSE Max(Ids(table)) + 1

\* the sprocs variants_insert, submissions_insert, grading_jobs_insert and
\* errors_insert add one row to their table and change no other row
InsertRowInPlace(table, row) ==
  IF table = <<>> THEN <<row>> ELSE [table EXCEPT ![Len(table)] = row]

InsertRow(table, row) == Append(table, row)

Row(table, id) == table[CHOOSE i \in DOMAIN table : table[i].id = id]

\* the rows a statement of task p's transaction sees (read-committed)
Visible(table, p) ==
  LET test(r) == r.tx \in {NOCLIENT, p} IN SelectSeq(table, test)

Committed(table) ==
  LET test(r) == r.tx = NOCLIENT IN SelectSeq(table, test)

\* COMMIT / ROLLBACK of the rows task p's transaction wrote
CommitRows(table, p) ==
  [i \in DOMAIN table |-> IF table[i].tx = p THEN [table[i] EXCEPT !.tx = NOCLIENT] ELSE table[i]]

RollbackRows(table, p) ==
  LET test(r) == r.tx # p IN SelectSeq(table, test)

\* _.some(_.map(courseErrs, 'fatal'))
HasFatalError(courseErrs) ==
  \E i \in DOMAIN courseErrs : courseErrs[i].fatal

\* x || {}
OrEmpty(x) == IF x = UNDEF THEN EMPTY ELSE x

\* the variant object _makeVariant builds (lines 113-119, 128-134)
MakeVariantDropData(variant_seed, data, broken) ==
  [ variant_seed |-> variant_seed, params |-> EMPTY, true_answer |-> EMPTY,
    options |-> EMPTY, broken |-> broken ]

MakeVariant(variant_seed, data, broken) ==
  [ variant_seed |-> variant_seed,
    params |-> OrEmpty(data.params),
    true_answer |-> OrEmpty(data.true_answer),
    options |-> OrEmpty(data.options),
    broken |-> broken ]

NoVariant ==
  [variant_seed |-> UNDEF, params |-> UNDEF, true_answer |-> UNDEF, options |-> UNDEF,
   broken |-> FALSE]

\* the submission object a caller hands to saveSubmission
NoSubmission ==
  [submitted_answer |-> UNDEF, raw_submitted_answer |-> UNDEF, gradable |-> UNDEF,
   variant_id |-> NULL]

\* the outcomes of a call that can fail (a database call, a module
\* resolution, a plugin call handing back err): TRUE = it succeeds
Outcomes == {TRUE, FALSE}

\* the flags of locals, all false (lines 609-617)
NoFlags ==
  [ showGradeButton |-> FALSE, showSaveButton |-> FALSE,
    showNewVariantButton |-> FALSE, tryAgainButton |-> FALSE,
    showSubmissions |-> FALSE, showFeedback |-> FALSE, showTrueAnswer |-> FALSE,
    showGradingRequested |-> FALSE, allowAnswerEditing |-> FALSE ]

\* the locals of a page: the assessment's type, whether the assessment
\* instance and the instance question exist and are open, the flags, and
\* what getAndRenderVariant loads (variant: no row or one row)
NoLocals ==
  [ assessment |-> "none", assessment_instance |-> "none", instance_question |-> "none",
    flags |-> NoFlags, variant |-> <<>>, submissions |-> <<>>, errors |-> <<>>,
    htmls |-> UNDEF ]

Fresh ==
  [ op |-> UNDEF, phase |-> UNDEF,
    \* arguments
    question_id |-> NULL, instance_question_id |-> NULL, options |-> UNDEF,
    require_open |-> FALSE,
    submission |-> NoSubmission, variant_arg |-> NULL, check_submission_id |-> NULL,
    \* locals
    question |-> NULL, variant_seed |-> UNDEF, courseErrs |-> <<>>,
    variant |-> NoVariant, err |-> NOERR, data |-> NoPluginData,
    submission_id |-> NULL, selected |-> NULL, grading_job |-> NULL,
    sent |-> <<>>,
    \* what the operation did
    calls |-> <<>>, found |-> {}, hit |-> FALSE, variant_id |-> NULL, errRows |-> 0,
    pre |-> [variants |-> <<>>, submissions |-> <<>>, grading_jobs |-> <<>>,
             errors |-> <<>>, queue |-> <<>>],
    txBegin |-> 0, txEnd |-> <<>>, cbCount |-> 0, cbErr |-> NOERR, cbValue |-> NULL,
    cbHtmls |-> UNDEF, lookup |-> UNDEF,
    \* getAndRenderVariant: the operation that called this one, its locals,
    \* and its own callback
    outer |-> UNDEF, locals |-> NoLocals, outerCbCount |-> 0, outerCbErr |-> NOERR ]

\* the AppModel as initialize leaves it (userRole: null), with the last call
\* of hasPermission: the userRole it read, the operation and what it returned
NoCall == [made |-> FALSE, role |-> "null", operation |-> "none", permission |-> FALSE]

NoApp == [userRole |-> "null", call |-> NoCall]

\* what a capability of the question's module returns: (courseErrs, data).
\* The module is a fixed program: its results are chosen once, at start.
Results(msg, datas) == [courseErrs : ErrLists(msg), data : datas]

NoResult == [courseErrs |-> <<>>, data |-> NoData]

\* the row of table questions
Question(grading_method) == [id |-> 1, grading_method |-> grading_method]

\* variant creation starts from an empty store
InitVariant ==
  /\ variants = <<>>
  /\ errors = <<>>
  /\ submissions = <<>>
  /\ grading_jobs = <<>>
  /\ queue = <<>>
  /\ module \in [generate : Results("generate", GenerateData),
                  prepare : Results("prepare", PrepareData),
                  parse : {NoResult}, grade : {NoResult}, render : {NoResult}]
  /\ question = Question("Internal")
  /\ messageQueue = "up"
  /\ app = [s \in Sessions |-> NoApp]
  /\ pc = [p \in Tasks |-> "idle"]
  /\ loc = [p \in Tasks |-> Fresh]

\* the committed store as the caller finds it when it makes a call
Snapshot ==
  [ variants |-> Committed(variants), submissions |-> Committed(submissions),
    grading_jobs |-> Committed(grading_jobs), errors |-> Committed(errors),
    queue |-> queue ]

\* the operation's callback(err, value) is invoked: if (ERR(err, callback))
\* return; callback(null, value)
CallbackAgainOnErr(l, err, value) ==
  [l EXCEPT !.cbCount = @ + (IF err # NOERR THEN 2 ELSE 1), !.cbErr = err,
            !.cbValue = IF err # NOERR THEN NULL ELSE value]

Callback(l, err, value) ==
  [l EXCEPT !.cbCount = @ + 1, !.cbErr = err, !.cbValue = value]

\* ------------------------------------------------------------ ensureVariant
\* the caller invokes ensureVariant; beginTransaction is issued
CallEnsureVariant(p) ==
  /\ pc[p] = "idle"
  /\ Len(variants) < MaxVariants
  /\ \E question_id \in QuestionIds \cup {NULL},
        instance_question_id \in SlotIds \cup {NULL},
        options \in CallerSeeds \cup {UNDEF},
        require_open \in BOOLEAN :
       loc' = [loc EXCEPT ![p] =
                 [Fresh EXCEPT !.op = "ensureVariant",
                               !.question_id = question_id,
                               !.instance_question_id = instance_question_id,
                               !.options = options,
                               !.require_open = require_open,
                               !.pre = Snapshot]]
  /\ pc' = [pc EXCEPT ![p] = "beginTransaction"]
  /\ UNCHANGED <<tables, queue, config>>

\* the step a public operation performs first inside its transaction
FirstStep(l) ==
  CASE l.op = "ensureVariant" ->
         (IF l.instance_question_id # NULL THEN "selectVariant" ELSE "selectQuestion")
    [] l.op \in {"saveSubmission", "saveAndGradeSubmission"} -> "getModule"
    [] l.op = "gradeVariant" -> "selectSubmission"

\* what the operation's worker does before its first asynchronous call:
\* _saveSubmissionWithClient keeps the answer as raw_submitted_answer and
\* sets gradable (lines 302-303)
StartWorker(l) ==
  CASE l.op \in {"saveSubmission", "saveAndGradeSubmission"} ->
         [l EXCEPT !.phase = "save",
                   !.submission.raw_submitted_answer = l.submission.submitted_answer,
                   !.submission.gradable = "true"]
    [] l.op = "gradeVariant" -> [l EXCEPT !.phase = "grade"]
    [] OTHER -> l

\* sqldb.beginTransaction and its callback
BeginTransaction(p) ==
  /\ pc[p] = "beginTransaction"
  /\ \E ok \in Outcomes :
       IF ok
       THEN /\ loc' = [loc EXCEPT ![p] = StartWorker([@ EXCEPT !.txBegin = @ + 1])]
            /\ pc' = [pc EXCEPT ![p] = FirstStep(loc[p])]
       ELSE /\ loc' = [loc EXCEPT ![p] = Callback(@, "db_error", NULL)]
            /\ pc' = [pc EXCEPT ![p] = "done"]
  /\ UNCHANGED <<tables, queue, config>>

\* sproc instance_questions_select_variant(instance_question_id, require_open):
\* the most recent variant bound to the slot, only an open one when
\* require_open
InstanceQuestionsSelectVariant(rows, instance_question_id, require_open) ==
  LET ok(r) == /\ r.instance_question_id = instance_question_id
               /\ (require_open => r.open)
      match == SelectSeq(rows, ok)
  IN IF match = <<>> THEN <<>> ELSE <<match[Len(match)]>>

\* the parameters _ensureVariantWithClient passes to the sproc
SelectVariantParamsAnyVariant(l) == <<l.instance_question_id, FALSE>>

SelectVariantParams(l) == <<l.instance_question_id, l.require_open>>

\* result.rowCount == 1: use the existing variant
UseExistingNever(result) == FALSE

UseExisting(result) == Len(result) = 1

\* _ensureVariantWithClient with a slot: look for a usable existing variant
SelectVariant(p) ==
  /\ pc[p] = "selectVariant"
  /\ \E ok \in Outcomes :
       IF ~ok
       THEN /\ loc' = [loc EXCEPT ![p].err = "db_error"]
            /\ pc' = [pc EXCEPT ![p] = "endTransaction"]
       ELSE LET params == SelectVariantParams(loc[p])
                result == InstanceQuestionsSelectVariant(Visible(variants, p), params[1], params[2])
            IN IF UseExisting(result)
                  THEN /\ loc' = [loc EXCEPT ![p].variant_id = result[1].id,
                                             ![p].found = {result[1].id},
                                             ![p].hit = TRUE]
                       /\ pc' = [pc EXCEPT ![p] = "endTransaction"]
                  ELSE /\ loc' = [loc EXCEPT ![p].found = {result[i].id : i \in DOMAIN result}]
                       /\ pc' = [pc EXCEPT ![p] = "selectQuestion"]
  /\ UNCHANGED <<tables, queue, config>>

\* question of a slot (sproc instance_questions_select_question)
SlotQuestion(instance_question_id) == 1

\* variant_seed: the caller's when options has one, else synthesized
SeedsIgnoringOptions(options) == RandomSeeds

Seeds(options) == IF options # UNDEF THEN {options} ELSE RandomSeeds

\* the sproc _selectQuestionWithClient resolves the question with:
\* if (question_id != null) questions_select, else
\* instance_questions_select_question
QuestionLookupSlotFirst(l) ==
  IF l.instance_question_id # NULL THEN "instance_questions_select_question"
  ELSE "questions_select"

QuestionLookup(l) ==
  IF l.question_id # NULL THEN "questions_select"
  ELSE "instance_questions_select_question"

\* _selectQuestionWithClient, then _makeVariant up to its getModule call
SelectQuestion(p) ==
  /\ pc[p] = "selectQuestion"
  /\ LET l == loc[p] IN
     IF l.question_id = NULL /\ l.instance_question_id = NULL
     THEN /\ loc' = [loc EXCEPT ![p].err = "both_null"]
          /\ pc' = [pc EXCEPT ![p] = "endTransaction"]
     ELSE \E ok \in Outcomes :
            IF ~ok
            THEN /\ loc' = [loc EXCEPT ![p].err = "db_error"]
                 /\ pc' = [pc EXCEPT ![p] = "endTransaction"]
            ELSE /\ \E seed \in Seeds(l.options) :
                      loc' = [loc EXCEPT
                                ![p].lookup = QuestionLookup(l),
                                ![p].question =
                                   IF QuestionLookup(l) = "questions_select"
                                   THEN l.question_id
                                   ELSE SlotQuestion(l.instance_question_id),
                                ![p].variant_seed = seed,
                                ![p].phase = "variant"]
                 /\ pc' = [pc EXCEPT ![p] = "getModule"]
  /\ UNCHANGED <<tables, queue, config>>

\* where an operation continues once its module is resolved
AfterGetModule(l) ==
  CASE l.phase = "variant" -> "generate"
    [] l.phase = "render" -> "render"
    [] l.phase = "save" -> "parse"
    [] l.phase = "grade" ->
         IF question.grading_method = "Internal" THEN "grade" ELSE "writeCourseErrs"

\* for External or Manual grading nothing is done: courseErrs = [], data = {}
NotGradedKeepsData(l) == l

NotGraded(l) ==
  IF l.phase = "grade" /\ question.grading_method # "Internal"
  THEN [l EXCEPT !.courseErrs = <<>>, !.data = NoPluginData]
  ELSE l

\* where an err of getModule is handed: to the series that ends the
\* transaction, or by _render straight to its caller
OnGetModuleErr(l) == IF l.phase = "render" THEN "renderReturn" ELSE "endTransaction"

\* questionServers.getModule(question.type, ...) and its callback
GetModule(p) ==
  /\ pc[p] = "getModule"
  /\ \E ok \in Outcomes :
       IF ~ok
       THEN /\ loc' = [loc EXCEPT ![p].err = "unknown_type"]
            /\ pc' = [pc EXCEPT ![p] = OnGetModuleErr(loc[p])]
       ELSE /\ loc' = [loc EXCEPT ![p] = NotGraded(@)]
            /\ pc' = [pc EXCEPT ![p] = AfterGetModule(loc[p])]
  /\ UNCHANGED <<tables, queue, config>>

\* if (variant.broken) return callback(...); otherwise prepare is called
AfterGenerateAlwaysPrepare(variant) == "prepare"

AfterGenerate(variant) == IF variant.broken THEN "variantsInsert" ELSE "prepare"

\* questionModule.generate(question, course, variant_seed, ...) and its callback
Generate(p) ==
  /\ pc[p] = "generate"
  /\ \E ok \in Outcomes :
       IF ~ok
       THEN /\ loc' = [loc EXCEPT ![p].err = "plugin_crash",
                                  ![p].calls = Append(@, "generate")]
            /\ pc' = [pc EXCEPT ![p] = "endTransaction"]
       ELSE LET courseErrs == module.generate.courseErrs
                data == module.generate.data
                variant == MakeVariant(loc[p].variant_seed, data, HasFatalError(courseErrs))
            IN /\ loc' = [loc EXCEPT ![p].courseErrs = courseErrs,
                                     ![p].variant = variant,
                                     ![p].calls = Append(@, "generate")]
               /\ pc' = [pc EXCEPT ![p] = AfterGenerate(variant)]
  /\ UNCHANGED <<tables, queue, config>>

\* the variant built in prepare's callback from prepare's data and the
\* errors of generate and prepare together
PreparedVariantKeepGenerate(variant_seed, generated, data, courseErrs) ==
  [generated EXCEPT !.broken = HasFatalError(courseErrs)]

PreparedVariantNeverBroken(variant_seed, generated, data, courseErrs) ==
  MakeVariant(variant_seed, data, FALSE)

PreparedVariant(variant_seed, generated, data, courseErrs) ==
  MakeVariant(variant_seed, data, HasFatalError(courseErrs))

\* questionModule.prepare(question, course, variant, ...) and its callback
Prepare(p) ==
  /\ pc[p] = "prepare"
  /\ \E ok \in Outcomes :
       IF ~ok
       THEN /\ loc' = [loc EXCEPT ![p].err = "plugin_crash",
                                  ![p].calls = Append(@, "prepare")]
            /\ pc' = [pc EXCEPT ![p] = "endTransaction"]
       ELSE LET extraCourseErrs == module.prepare.courseErrs
                data == module.prepare.data
                courseErrs == loc[p].courseErrs \o extraCourseErrs
            IN /\ loc' = [loc EXCEPT ![p].courseErrs = courseErrs,
                                     ![p].variant = PreparedVariant(loc[p].variant_seed,
                                                      loc[p].variant, data, courseErrs),
                                     ![p].calls = Append(@, "prepare")]
               /\ pc' = [pc EXCEPT ![p] = "variantsInsert"]
  /\ UNCHANGED <<tables, queue, config>>

\* sproc variants_insert: the new row, open, written in p's transaction
VariantsInsertRowNoClient(p, id, l) ==
  [ id |-> id,
    variant_seed |-> l.variant.variant_seed,
    params |-> l.variant.params,
    true_answer |-> l.variant.true_answer,
    options |-> l.variant.options,
    broken |-> l.variant.broken,
    instance_question_id |-> l.instance_question_id,
    question_id |-> l.question,
    open |-> TRUE,
    tx |-> NOCLIENT ]

VariantsInsertRow(p, id, l) ==
  [ id |-> id,
    variant_seed |-> l.variant.variant_seed,
    params |-> l.variant.params,
    true_answer |-> l.variant.true_answer,
    options |-> l.variant.options,
    broken |-> l.variant.broken,
    instance_question_id |-> l.instance_question_id,
    question_id |-> l.question,
    open |-> TRUE,
    tx |-> p ]

\* sqldb.callWithClientOneRow(client, 'variants_insert', ...) and its callback
VariantsInsert(p) ==
  /\ pc[p] = "variantsInsert"
  /\ \E ok \in Outcomes :
       IF ~ok
       THEN /\ loc' = [loc EXCEPT ![p].err = "db_error"]
            /\ pc' = [pc EXCEPT ![p] = "endTransaction"]
            /\ UNCHANGED variants
       ELSE LET id == NextId(variants)
            IN /\ variants' = InsertRow(variants, VariantsInsertRow(p, id, loc[p]))
               /\ loc' = [loc EXCEPT ![p].variant_id = id]
               /\ pc' = [pc EXCEPT ![p] = "writeCourseErrs"]
  /\ UNCHANGED <<submissions, grading_jobs, errors, queue, config>>

\* the student message of each call site of _writeCourseErrs
StudentMessageOne(l) == "Error creating question variant"

StudentMessage(l) ==
  CASE l.phase = "variant" -> "Error creating question variant"
    [] l.phase = "save" -> "Error parsing submission"
    [] l.phase = "grade" -> "Error grading submission"
    [] l.phase = "render" -> "Error rendering question"

\* courseErr.toString()
CourseErrToString(courseErr) == <<"Error: ", courseErr.message>>

\* one row of errors_insert_for_variant, written on the transaction's client
ErrorRowNoClient(client, id, variant_id, studentMessage, courseErr) ==
  [ id |-> id,
    variant_id |-> variant_id,
    student_message |-> studentMessage,
    instructor_message |-> <<"Error: ", courseErr.message>>,
    course_caused |-> TRUE,
    tx |-> NOCLIENT ]

ErrorRow(client, id, variant_id, studentMessage, courseErr) ==
  [ id |-> id,
    variant_id |-> variant_id,
    student_message |-> studentMessage,
    instructor_message |-> CourseErrToString(courseErr),
    course_caused |-> TRUE,
    tx |-> client ]

\* the variant.id each call site hands to _writeCourseErrs
ErrorsVariant(l) == IF l.phase = "variant" THEN l.variant_id ELSE l.variant_arg

\* a sink that writes no row
InsertErrorsNone(table, client, courseErrs, n, l) == table

RECURSIVE InsertErrors(_, _, _, _, _)
\* async.eachSeries over courseErrs: the table after the first n are written
InsertErrors(table, client, courseErrs, n, l) ==
  IF n = 0 THEN table
  ELSE LET before == InsertErrors(table, client, courseErrs, n - 1, l)
       IN InsertRow(before, ErrorRow(client, NextId(before), ErrorsVariant(l),
                                  StudentMessage(l), courseErrs[n]))

\* where an operation continues once its course errors are written
AfterWriteCourseErrs(l) ==
  CASE l.phase = "variant" -> "endTransaction"
    [] l.phase = "save" -> "submissionsInsert"
    [] l.phase = "grade" -> "gradingJobsInsert"

\* _writeCourseErrs(client, courseErrs, variant.id, ...): n rows get written;
\* with n < Len(courseErrs) the insert of row n+1 failed
WriteCourseErrs(p) ==
  /\ pc[p] = "writeCourseErrs"
  /\ LET courseErrs == loc[p].courseErrs IN
     \E n \in 0..Len(courseErrs) :
       /\ errors' = InsertErrors(errors, p, courseErrs, n, loc[p])
       /\ IF n < Len(courseErrs)
          THEN /\ loc' = [loc EXCEPT ![p].err = "db_error", ![p].errRows = @ + n]
               /\ pc' = [pc EXCEPT ![p] = "endTransaction"]
          ELSE /\ loc' = [loc EXCEPT ![p].errRows = @ + n]
               /\ pc' = [pc EXCEPT ![p] = AfterWriteCourseErrs(loc[p])]
  /\ UNCHANGED <<variants, submissions, grading_jobs, queue, config>>

\* the value a public operation hands to its callback on success
ReturnValue(l) ==
  CASE l.op = "ensureVariant" -> l.variant_id
    [] l.op \in {"saveSubmission", "saveAndGradeSubmission"} -> l.submission_id
    [] l.op = "gradeVariant" -> NULL

\* the err the final callback of the operation's series hands to
\* sqldb.endTransaction
EndTransactionErrDropped(l) == NOERR

EndTransactionErr(l) == l.err

\* sqldb.endTransaction(client, done, err, ...) and its callback: rollback
\* when err is set, else commit, which can fail
EndTransaction(p) ==
  /\ pc[p] = "endTransaction"
  /\ \E ok \in Outcomes :
       IF EndTransactionErr(loc[p]) # NOERR \/ ~ok
       THEN /\ variants' = RollbackRows(variants, p)
            /\ submissions' = RollbackRows(submissions, p)
            /\ grading_jobs' = RollbackRows(grading_jobs, p)
            /\ errors' = RollbackRows(errors, p)
            /\ loc' = [loc EXCEPT ![p] =
                         Callback([@ EXCEPT !.txEnd = Append(@, "rollback")],
                                  IF EndTransactionErr(loc[p]) # NOERR
                                  THEN EndTransactionErr(loc[p]) ELSE "db_error", NULL)]
       ELSE /\ variants' = CommitRows(variants, p)
            /\ submissions' = CommitRows(submissions, p)
            /\ grading_jobs' = CommitRows(grading_jobs, p)
            /\ errors' = CommitRows(errors, p)
            /\ loc' = [loc EXCEPT ![p] =
                         Callback([@ EXCEPT !.txEnd = Append(@, "commit")],
                                  NOERR, ReturnValue(loc[p]))]
  /\ pc' = [pc EXCEPT ![p] = "done"]
  /\ UNCHANGED <<queue, config>>

\* the caller's callback has run; the task is free for the next call
Return(p) ==
  /\ pc[p] = "done"
  /\ pc' = [pc EXCEPT ![p] = "idle"]
  /\ loc' = [loc EXCEPT ![p] = Fresh]
  /\ UNCHANGED <<tables, queue, config>>

\* a collaborator outside this module closes a committed variant
CloseVariant ==
  /\ \E i \in DOMAIN variants :
       /\ variants[i].tx = NOCLIENT
       /\ variants[i].open
       /\ variants' = [variants EXCEPT ![i].open = FALSE]
  /\ UNCHANGED <<submissions, grading_jobs, errors, queue, config, pc, loc>>

\* ----------------------------------------------------------- saveSubmission
\* the caller invokes saveSubmission for a variant it was given
CallSaveSubmission(p) ==
  /\ pc[p] = "idle"
  /\ Len(submissions) < MaxSubmissions
  /\ \E variant_id \in Ids(Committed(variants)), answer \in Answers :
       loc' = [loc EXCEPT ![p] =
                 [Fresh EXCEPT !.op = "saveSubmission",
                               !.variant_arg = variant_id,
                               !.submission = [NoSubmission EXCEPT
                                                 !.submitted_answer = answer,
                                                 !.variant_id = variant_id],
                               !.pre = Snapshot]]
  /\ pc' = [pc EXCEPT ![p] = "beginTransaction"]
  /\ UNCHANGED <<tables, queue, config>>

\* the data parse returns for a submission
ParseResultData(data, submission) ==
  [data EXCEPT !.submitted_answer = IF @ = "echo" THEN submission.submitted_answer ELSE @,
               !.raw_submitted_answer =
                  IF @ = "echo" THEN submission.raw_submitted_answer ELSE @]

\* questionModule.parse(submission, variant, question, course, ...) and its callback
Parse(p) ==
  /\ pc[p] = "parse"
  /\ \E ok \in Outcomes :
       IF ~ok
       THEN /\ loc' = [loc EXCEPT ![p].err = "plugin_crash",
                                  ![p].calls = Append(@, "parse")]
            /\ pc' = [pc EXCEPT ![p] = "endTransaction"]
       ELSE /\ loc' = [loc EXCEPT ![p].courseErrs = module.parse.courseErrs,
                                  ![p].data = ParseResultData(module.parse.data,
                                                              loc[p].submission),
                                  ![p].calls = Append(@, "parse")]
            /\ pc' = [pc EXCEPT ![p] = "writeCourseErrs"]
  /\ UNCHANGED <<tables, queue, config>>

\* if (hasFatalError) data.gradable = false
ClearGradableNever(courseErrs, data) == data

ClearGradable(courseErrs, data) ==
  IF HasFatalError(courseErrs) THEN [data EXCEPT !.gradable = "false"] ELSE data

\* the parameters of submissions_insert (lines 336-345) as the row inserted
\* on the transaction's client
SubmissionsInsertRowNoClient(p, id, submission, data) ==
  [ id |-> id,
    variant_id |-> submission.variant_id,
    submitted_answer |-> data.submitted_answer,
    raw_submitted_answer |-> data.raw_submitted_answer,
    format_errors |-> data.format_errors,
    gradable |-> data.gradable,
    tx |-> NOCLIENT ]

SubmissionsInsertRow(p, id, submission, data) ==
  [ id |-> id,
    variant_id |-> submission.variant_id,
    submitted_answer |-> data.submitted_answer,
    raw_submitted_answer |-> data.raw_submitted_answer,
    format_errors |-> data.format_errors,
    gradable |-> data.gradable,
    tx |-> p ]

\* where the operation continues once _saveSubmissionWithClient has returned
\* the submission id
AfterSaveSaveOnly(l) == "endTransaction"

AfterSave(l) ==
  IF l.op = "saveAndGradeSubmission" THEN "selectSubmission" ELSE "endTransaction"

\* sqldb.callWithClientOneRow(client, 'submissions_insert', ...) and its
\* callback; saveAndGradeSubmission goes on to _gradeVariantWithClient with
\* the new submission_id as check_submission_id
SubmissionsInsert(p) ==
  /\ pc[p] = "submissionsInsert"
  /\ \E ok \in Outcomes :
       LET data == ClearGradable(loc[p].courseErrs, loc[p].data) IN
       IF ~ok
       THEN /\ loc' = [loc EXCEPT ![p].err = "db_error", ![p].data = data]
            /\ pc' = [pc EXCEPT ![p] = "endTransaction"]
            /\ UNCHANGED submissions
       ELSE LET id == NextId(submissions)
            IN /\ submissions' = InsertRow(submissions,
                                     SubmissionsInsertRow(p, id, loc[p].submission, data))
               /\ loc' = [loc EXCEPT ![p].data = data,
                                     ![p].submission_id = id,
                                     ![p].check_submission_id =
                                        IF loc[p].op = "saveAndGradeSubmission" THEN id ELSE @,
                                     ![p].phase =
                                        IF loc[p].op = "saveAndGradeSubmission" THEN "grade" ELSE @]
               /\ pc' = [pc EXCEPT ![p] = AfterSave(loc[p])]
  /\ UNCHANGED <<variants, grading_jobs, errors, queue, config>>

\* ------------------------------------------------------------- gradeVariant
\* the caller invokes gradeVariant for a variant it was given
CallGradeVariant(p) ==
  /\ pc[p] = "idle"
  /\ Len(grading_jobs) < MaxJobs
  /\ Len(queue) < MaxQueue
  /\ \E variant_id \in Ids(Committed(variants)),
        check_submission_id \in {NULL} \cup (1..MaxSubmissions) :
       loc' = [loc EXCEPT ![p] =
                 [Fresh EXCEPT !.op = "gradeVariant",
                               !.variant_arg = variant_id,
                               !.check_submission_id = check_submission_id,
                               !.pre = Snapshot]]
  /\ pc' = [pc EXCEPT ![p] = "beginTransaction"]
  /\ UNCHANGED <<tables, queue, config>>

\* sproc variants_select_submission_for_grading(variant_id,
\* check_submission_id): the most recent submission of the variant, and no
\* row when check_submission_id is given and is not that submission's id
VariantsSelectSubmissionForGrading(rows, variant_id, check_submission_id) ==
  LET ofVariant(r) == r.variant_id = variant_id
      mine == SelectSeq(rows, ofVariant)
  IN IF mine = <<>> THEN <<>>
     ELSE IF check_submission_id # NULL /\ mine[Len(mine)].id # check_submission_id
          THEN <<>>
          ELSE <<mine[Len(mine)]>>

\* the parameters _gradeVariantWithClient passes to the sproc
SelectSubmissionParamsNoCheck(l) == <<l.variant_arg, NULL>>

SelectSubmissionParamsFirst(l) == <<l.variant_arg, 1>>

SelectSubmissionParams(l) == <<l.variant_arg, l.check_submission_id>>

\* the final callback of _gradeVariantWithClient's series: NoSubmissionError
\* only ends the series early and is not an error (lines 486-495)
SeriesResultKeepAll(err) == err

SeriesResultSwallowAll(err) == NOERR

SeriesResult(err) == IF err = "NoSubmissionError" THEN NOERR ELSE err

\* sqldb.callWithClientZeroOrOneRow(client,
\* 'variants_select_submission_for_grading', ...) and its callback
SelectSubmission(p) ==
  /\ pc[p] = "selectSubmission"
  /\ \E ok \in Outcomes :
       IF ~ok
       THEN /\ loc' = [loc EXCEPT ![p].err = SeriesResult("db_error")]
            /\ pc' = [pc EXCEPT ![p] = "endTransaction"]
       ELSE LET params == SelectSubmissionParams(loc[p])
                result == VariantsSelectSubmissionForGrading(Visible(submissions, p),
                                                             params[1], params[2])
            IN IF Len(result) = 0
                  THEN /\ loc' = [loc EXCEPT ![p].err = SeriesResult("NoSubmissionError")]
                       /\ pc' = [pc EXCEPT ![p] = "endTransaction"]
                  ELSE /\ loc' = [loc EXCEPT ![p].selected = result[1].id]
                       /\ pc' = [pc EXCEPT ![p] = "getModule"]
  /\ UNCHANGED <<tables, queue, config>>

\* questionModule.grade(submission, variant, question, course, ...) and its callback
Grade(p) ==
  /\ pc[p] = "grade"
  /\ \E ok \in Outcomes :
       IF ~ok
       THEN /\ loc' = [loc EXCEPT ![p].err = "plugin_crash",
                                  ![p].calls = Append(@, "grade")]
            /\ pc' = [pc EXCEPT ![p] = "endTransaction"]
       ELSE /\ loc' = [loc EXCEPT ![p].courseErrs = module.grade.courseErrs,
                                  ![p].data = ClearGradable(module.grade.courseErrs,
                                                            module.grade.data),
                                  ![p].calls = Append(@, "grade")]
            /\ pc' = [pc EXCEPT ![p] = "writeCourseErrs"]
  /\ UNCHANGED <<tables, queue, config>>

\* sproc grading_jobs_insert: the new row, with the grading method of the
\* submission's question
GradingJobsInsertRow(p, id, submission_id, data) ==
  [ id |-> id,
    submission_id |-> submission_id,
    gradable |-> data.gradable,
    format_errors |-> data.format_errors,
    partial_scores |-> data.partial_scores,
    score |-> data.score,
    feedback |-> data.feedback,
    grading_method |-> question.grading_method,
    tx |-> p ]

\* messageQueue.sendToGradingQueue(grading_job.id, submission, variant, ...):
\* the message reaches the queue, or the send fails and it is lost
SendToGradingQueue(q, grading_job, l, delivered) ==
  IF delivered
  THEN Append(q, [grading_job_id |-> grading_job.id, submission_id |-> l.selected,
                  variant_id |-> l.variant_arg])
  ELSE q

\* what the function that sends hands to the series: callback(null), whatever
\* became of the message
AfterSendAwaited(delivered) == IF delivered THEN NOERR ELSE "queue_error"

AfterSend(delivered) == NOERR

\* if (grading_job.grading_method == 'External')
ShouldSendAlways(grading_job) == TRUE

ShouldSend(grading_job) == grading_job.grading_method = "External"

\* sqldb.callWithClientOneRow(client, 'grading_jobs_insert', ...) and its
\* callback, then the last function of the series (the send to the queue)
GradingJobsInsert(p) ==
  /\ pc[p] = "gradingJobsInsert"
  /\ \E ok \in Outcomes :
       IF ~ok
       THEN /\ loc' = [loc EXCEPT ![p].err = SeriesResult("db_error")]
            /\ UNCHANGED <<grading_jobs, queue>>
       ELSE LET grading_job == GradingJobsInsertRow(p, NextId(grading_jobs),
                                                    loc[p].selected, loc[p].data)
            IN /\ grading_jobs' = InsertRow(grading_jobs, grading_job)
               /\ IF ShouldSend(grading_job)
                  THEN LET delivered == messageQueue = "up" IN
                       /\ queue' = SendToGradingQueue(queue, grading_job, loc[p], delivered)
                       /\ loc' = [loc EXCEPT ![p].grading_job = grading_job.id,
                                             ![p].sent = Append(@, grading_job.id),
                                             ![p].err = SeriesResult(AfterSend(delivered))]
                  ELSE /\ UNCHANGED queue
                       /\ loc' = [loc EXCEPT ![p].grading_job = grading_job.id]
  /\ pc' = [pc EXCEPT ![p] = "endTransaction"]
  /\ UNCHANGED <<variants, submissions, errors, config>>

\* --------------------------------------------------- saveAndGradeSubmission
\* the caller invokes saveAndGradeSubmission for a variant it was given
CallSaveAndGradeSubmission(p) ==
  /\ pc[p] = "idle"
  /\ Len(submissions) < MaxSubmissions
  /\ Len(grading_jobs) < MaxJobs
  /\ Len(queue) < MaxQueue
  /\ \E variant_id \in Ids(Committed(variants)), answer \in Answers :
       loc' = [loc EXCEPT ![p] =
                 [Fresh EXCEPT !.op = "saveAndGradeSubmission",
                               !.variant_arg = variant_id,
                               !.submission = [NoSubmission EXCEPT
                                                 !.submitted_answer = answer,
                                                 !.variant_id = variant_id],
                               !.pre = Snapshot]]
  /\ pc' = [pc EXCEPT ![p] = "beginTransaction"]
  /\ UNCHANGED <<tables, queue, config>>

\* ------------------------------------------------------------------ _render
\* _render is called for a variant
CallRender(p) ==
  /\ pc[p] = "idle"
  /\ Len(errors) < MaxErrorRows
  /\ \E variant_id \in Ids(Committed(variants)) :
       loc' = [loc EXCEPT ![p] =
                 [Fresh EXCEPT !.op = "render", !.phase = "render",
                               !.variant_arg = variant_id,
                               !.pre = Snapshot]]
  /\ pc' = [pc EXCEPT ![p] = "getModule"]
  /\ UNCHANGED <<tables, queue, config>>

\* questionModule.render(renderSelection, variant, question, ...) and its callback
Render(p) ==
  /\ pc[p] = "render"
  /\ \E ok \in Outcomes :
       IF ~ok
       THEN /\ loc' = [loc EXCEPT ![p].err = "plugin_crash",
                                  ![p].calls = Append(@, "render")]
            /\ pc' = [pc EXCEPT ![p] = "renderReturn"]
       ELSE /\ loc' = [loc EXCEPT ![p].courseErrs = module.render.courseErrs,
                                  ![p].calls = Append(@, "render")]
            /\ pc' = [pc EXCEPT ![p] = "renderWriteCourseErrs"]
  /\ UNCHANGED <<tables, queue, config>>

\* the client _render hands to _writeCourseErrs: null
RenderClientInTransaction(p) == p

RenderClient(p) == NOCLIENT

\* this._writeCourseErrs(null, courseErrs, variant.id, ...) of _render: no
\* client, so each row is written by sqldb.call on its own
RenderWriteCourseErrs(p) ==
  /\ pc[p] = "renderWriteCourseErrs"
  /\ LET courseErrs == loc[p].courseErrs IN
     \E n \in 0..Len(courseErrs) :
       /\ errors' = InsertErrors(errors, RenderClient(p), courseErrs, n, loc[p])
       /\ loc' = [loc EXCEPT ![p].err = IF n < Len(courseErrs) THEN "db_error" ELSE @,
                             ![p].errRows = @ + n]
  /\ pc' = [pc EXCEPT ![p] = "renderReturn"]
  /\ UNCHANGED <<variants, submissions, grading_jobs, queue, config>>

\* _render's callback(err) or callback(null, htmls)
RenderReturn(p) ==
  /\ pc[p] = "renderReturn"
  /\ loc' = [loc EXCEPT ![p] =
               [Callback(@, loc[p].err, NULL) EXCEPT
                  !.cbHtmls = IF loc[p].err = NOERR THEN "htmls" ELSE UNDEF]]
  /\ pc' = [pc EXCEPT ![p] = "done"]
  /\ UNCHANGED <<tables, queue, config>>

\* ------------------------------------------------------ getAndRenderVariant
\* the pages getAndRenderVariant is called for: an instructor page has no
\* assessment; the assessment instance and the instance question can each be
\* absent, open or closed
Contexts ==
  [ assessment : {"none", "Homework", "Exam"},
    assessment_instance : {"none", "open", "closed"},
    instance_question : {"none", "open", "closed"} ]

\* the flags set before the series starts (lines 609-643)
InitialFlags(ctx) ==
  IF ctx.assessment = "none"
  THEN [NoFlags EXCEPT !.showGradeButton = TRUE, !.showSaveButton = TRUE,
                       !.allowAnswerEditing = TRUE, !.showNewVariantButton = TRUE]
  ELSE IF ctx.assessment = "Homework"
  THEN [NoFlags EXCEPT !.showGradeButton = TRUE, !.showSaveButton = TRUE,
                       !.allowAnswerEditing = TRUE]
  ELSE IF ctx.assessment_instance = "open"
  THEN (IF ctx.instance_question = "open"
        THEN [NoFlags EXCEPT !.showSaveButton = TRUE, !.allowAnswerEditing = TRUE]
        ELSE NoFlags)
  ELSE [NoFlags EXCEPT !.showTrueAnswer = TRUE]

\* locals.assessment_instance.open and locals.instance_question.open are
\* read of an object that is absent: a TypeError is thrown (lines 634-635)
InitialFlagsThrow(ctx) ==
  /\ ctx.assessment = "Exam"
  /\ \/ ctx.assessment_instance = "none"
     \/ ctx.assessment_instance = "open" /\ ctx.instance_question = "none"

\* locals.instance_question.id is read on a student page (line 675)
UrlsThrow(locals) ==
  locals.assessment # "none" /\ locals.instance_question = "none"

\* the third function of the series (lines 685-699)
ClosedFlagsKept(locals) == [locals.flags EXCEPT !.showFeedback = TRUE]

ClosedFlags(locals) ==
  LET flags == [locals.flags EXCEPT !.showFeedback = TRUE] IN
  IF \/ ~locals.variant[1].open
     \/ locals.instance_question = "closed"
     \/ locals.assessment_instance = "closed"
  THEN LET off == [flags EXCEPT !.showGradeButton = FALSE, !.showSaveButton = FALSE,
                                !.allowAnswerEditing = FALSE]
       IN IF locals.assessment = "Homework"
          THEN [off EXCEPT !.tryAgainButton = TRUE, !.showTrueAnswer = TRUE]
          ELSE off
  ELSE flags

\* the fifth function of the series (lines 716-725)
BrokenFlagsKept(locals) == locals.flags

BrokenFlags(locals) ==
  IF locals.variant[1].broken
  THEN LET off == [locals.flags EXCEPT !.showGradeButton = FALSE,
                                       !.showSaveButton = FALSE]
       IN IF locals.assessment = "Homework"
          THEN [off EXCEPT !.tryAgainButton = TRUE]
          ELSE off
  ELSE locals.flags

\* sql.select_submissions: the committed submissions of the variant, the
\* most recent first
SelectSubmissions(table, variant_id) ==
  LET ofVariant(r) == r.variant_id = variant_id
      mine == SelectSeq(Committed(table), ofVariant)
  IN [i \in 1..Len(mine) |-> mine[Len(mine) + 1 - i]]

\* sql.select_errors: the committed CourseError rows of the variant
SelectErrors(table, variant_id) ==
  LET ofVariant(r) == r.variant_id = variant_id
  IN SelectSeq(Committed(table), ofVariant)

\* getAndRenderVariant's final callback(err), or callback(null)
Finish(l, err) ==
  [l EXCEPT !.op = "getAndRenderVariant", !.outerCbCount = @ + 1, !.outerCbErr = err]

\* the caller invokes getAndRenderVariant: the flags are set, then the first
\* function of the series calls variants_select, or ensureVariant with
\* options = {} and require_open for an assessment that is not an Exam
CallGetAndRenderVariant(p) ==
  /\ pc[p] = "idle"
  /\ \E variant_id \in Ids(Committed(variants)) \cup {NULL}, ctx \in Contexts :
       LET locals == [NoLocals EXCEPT !.assessment = ctx.assessment,
                                      !.assessment_instance = ctx.assessment_instance,
                                      !.instance_question = ctx.instance_question,
                                      !.flags = InitialFlags(ctx)]
           l == [Fresh EXCEPT !.outer = "getAndRenderVariant",
                              !.variant_arg = variant_id,
                              !.locals = locals,
                              !.pre = Snapshot]
       IN IF InitialFlagsThrow(ctx)
          THEN /\ loc' = [loc EXCEPT ![p] =
                            [l EXCEPT !.op = "getAndRenderVariant",
                                      !.locals.flags = NoFlags]]
               /\ pc' = [pc EXCEPT ![p] = "thrown"]
          ELSE IF variant_id # NULL
          THEN /\ loc' = [loc EXCEPT ![p] = [l EXCEPT !.op = "getAndRenderVariant"]]
               /\ pc' = [pc EXCEPT ![p] = "variantsSelect"]
          ELSE /\ loc' = [loc EXCEPT ![p] =
                            [l EXCEPT !.op = "ensureVariant",
                                      !.question_id = question.id,
                                      !.instance_question_id =
                                         IF ctx.instance_question = "none" THEN NULL ELSE 1,
                                      !.options = UNDEF,
                                      !.require_open =
                                         (ctx.assessment # "none" /\ ctx.assessment # "Exam")]]
               /\ pc' = [pc EXCEPT ![p] = "beginTransaction"]
  /\ UNCHANGED <<tables, queue, config>>

\* sqldb.callOneRow('variants_select', [variant_id], ...) and its callback
VariantsSelect(p) ==
  /\ pc[p] = "variantsSelect"
  /\ \E ok \in Outcomes :
       IF ~ok
       THEN /\ loc' = [loc EXCEPT ![p] = Finish(@, "db_error")]
            /\ pc' = [pc EXCEPT ![p] = "finished"]
       ELSE /\ loc' = [loc EXCEPT ![p].locals.variant =
                                    <<Row(Committed(variants), loc[p].variant_arg)>>]
            /\ pc' = [pc EXCEPT ![p] = "urls"]
  /\ UNCHANGED <<tables, queue, config>>

\* the callback getAndRenderVariant gave ensureVariant
AfterEnsureVariant(p) ==
  /\ pc[p] = "done"
  /\ loc[p].op = "ensureVariant"
  /\ loc[p].outer = "getAndRenderVariant"
  /\ IF loc[p].cbErr # NOERR
     THEN /\ loc' = [loc EXCEPT ![p] = Finish(@, loc[p].cbErr)]
          /\ pc' = [pc EXCEPT ![p] = "finished"]
     ELSE /\ loc' = [loc EXCEPT ![p].op = "getAndRenderVariant",
                                ![p].variant_arg = loc[p].cbValue,
                                ![p].locals.variant =
                                   <<Row(Committed(variants), loc[p].cbValue)>>]
          /\ pc' = [pc EXCEPT ![p] = "urls"]
  /\ UNCHANGED <<tables, queue, config>>

\* the second and third functions of the series: the urls, then the flags
\* of a closed variant, instance question or assessment instance
Urls(p) ==
  /\ pc[p] = "urls"
  /\ IF UrlsThrow(loc[p].locals)
     THEN /\ pc' = [pc EXCEPT ![p] = "thrown"]
          /\ UNCHANGED loc
     ELSE /\ loc' = [loc EXCEPT ![p].locals.flags = ClosedFlags(loc[p].locals)]
          /\ pc' = [pc EXCEPT ![p] = "selectSubmissions"]
  /\ UNCHANGED <<tables, queue, config>>

\* the fourth and fifth functions of the series: sqldb.query(
\* sql.select_submissions) and its callback, then the flags of a broken
\* variant
QuerySubmissions(p) ==
  /\ pc[p] = "selectSubmissions"
  /\ \E ok \in Outcomes :
       IF ~ok
       THEN /\ loc' = [loc EXCEPT ![p] = Finish(@, "db_error")]
            /\ pc' = [pc EXCEPT ![p] = "finished"]
       ELSE LET rows == SelectSubmissions(submissions, loc[p].variant_arg)
                loaded == IF Len(rows) >= 1
                          THEN [loc[p].locals EXCEPT !.submissions = rows,
                                                     !.flags.showSubmissions = TRUE]
                          ELSE loc[p].locals
            IN /\ loc' = [loc EXCEPT ![p].locals =
                                       [loaded EXCEPT !.flags = BrokenFlags(loaded)]]
               /\ pc' = [pc EXCEPT ![p] = "getEffectiveQuestionType"]
  /\ UNCHANGED <<tables, queue, config>>

\* questionServers.getEffectiveQuestionType and its callback, then the
\* call of _render for the variant
GetEffectiveQuestionType(p) ==
  /\ pc[p] = "getEffectiveQuestionType"
  /\ \E ok \in Outcomes :
       IF ~ok
       THEN /\ loc' = [loc EXCEPT ![p] = Finish(@, "unknown_type")]
            /\ pc' = [pc EXCEPT ![p] = "finished"]
       ELSE /\ loc' = [loc EXCEPT ![p] =
                         [Fresh EXCEPT !.op = "render", !.phase = "render",
                                       !.variant_arg = loc[p].variant_arg,
                                       !.pre = loc[p].pre,
                                       !.outer = loc[p].outer,
                                       !.locals = loc[p].locals]]
            /\ pc' = [pc EXCEPT ![p] = "getModule"]
  /\ UNCHANGED <<tables, queue, config>>

\* the callback getAndRenderVariant gave _render
AfterRender(p) ==
  /\ pc[p] = "done"
  /\ loc[p].op = "render"
  /\ loc[p].outer = "getAndRenderVariant"
  /\ IF loc[p].cbErr # NOERR
     THEN /\ loc' = [loc EXCEPT ![p] = Finish(@, loc[p].cbErr)]
          /\ pc' = [pc EXCEPT ![p] = "finished"]
     ELSE /\ loc' = [loc EXCEPT ![p].op = "getAndRenderVariant",
                                ![p].locals.htmls = loc[p].cbHtmls]
          /\ pc' = [pc EXCEPT ![p] = "selectErrors"]
  /\ UNCHANGED <<tables, queue, config>>

\* the last functions of the series: sqldb.query(sql.select_errors) and its
\* callback, the question's JSON, and the final callback
QueryErrors(p) ==
  /\ pc[p] = "selectErrors"
  /\ \E ok \in Outcomes :
       IF ~ok
       THEN loc' = [loc EXCEPT ![p] = Finish(@, "db_error")]
       ELSE loc' = [loc EXCEPT ![p] =
                      Finish([@ EXCEPT !.locals.errors =
                                         SelectErrors(errors, loc[p].variant_arg)],
                             NOERR)]
  /\ pc' = [pc EXCEPT ![p] = "finished"]
  /\ UNCHANGED <<tables, queue, config>>

\* ------------------------------------------------------------- AppModel
\* var roleList = ['Superuser', 'Instructor', 'TA', 'Student'] and the ranks
roleList == <<"Superuser", "Instructor", "TA", "Student">>

ROLE_SUPERUSER == 0

ROLE_INSTRUCTOR == 1

ROLE_TA == 2

ROLE_STUDENT == 3

\* _(roleList).indexOf(role): the index from 0, -1 when role is not in the list
IndexOf(list, x) ==
  IF \E i \in DOMAIN list : list[i] = x
  THEN (CHOOSE i \in DOMAIN list : list[i] = x) - 1
  ELSE -1

\* the operations granted to a rank
Granted(operation, roleRank) ==
  \/ operation = "overrideScore" /\ roleRank <= ROLE_INSTRUCTOR
  \/ operation = "seeQID" /\ roleRank <= ROLE_TA
  \/ operation = "changeUser" /\ roleRank <= ROLE_TA
  \/ operation = "changeMode" /\ roleRank <= ROLE_TA
  \/ operation = "seeAvailDate" /\ roleRank <= ROLE_TA

\* AppModel.hasPermission(operation) with userRole = role
HasPermissionKeepsRank(role, operation) ==
  IF role = "null" THEN FALSE
  ELSE Granted(operation, IndexOf(roleList, role))

HasPermission(role, operation) ==
  IF role = "null" THEN FALSE
  ELSE LET roleRank == IF IndexOf(roleList, role) < 0 THEN ROLE_STUDENT
                       ELSE IndexOf(roleList, role)
       IN Granted(operation, roleRank)

\* that.set({..., userRole: data.role, ...}) and that.set("userRole",
\* userData.role) in the callbacks of initialize
SetUserRole(s) ==
  /\ \E role \in UserRoles : app' = [app EXCEPT ![s].userRole = role]
  /\ UNCHANGED <<tables, queue, module, question, messageQueue, pc, loc>>

\* a view asks hasPermission(operation)
CallHasPermission(s) ==
  /\ \E operation \in Operations :
       app' = [app EXCEPT ![s].call =
                 [made |-> TRUE, role |-> app[s].userRole, operation |-> operation,
                  permission |-> HasPermission(app[s].userRole, operation)]]
  /\ UNCHANGED <<tables, queue, module, question, messageQueue, pc, loc>>

\* ------------------------------------------------------- specifications
\* one caller at a time creating variants
NextVariant ==
  \/ \E p \in SeqTasks :
       \/ CallEnsureVariant(p)
       \/ BeginTransaction(p)
       \/ SelectVariant(p)
       \/ SelectQuestion(p)
       \/ GetModule(p)
       \/ Generate(p)
       \/ Prepare(p)
       \/ VariantsInsert(p)
       \/ WriteCourseErrs(p)
       \/ EndTransaction(p)
       \/ Return(p)
  \/ (\A p \in Tasks : pc[p] = "idle") /\ CloseVariant

SpecVariant == InitVariant /\ [][NextVariant]_vars

\* a variant as ensureVariant leaves it: not broken, holding prepare's data
ExistingVariant(id) ==
  [ id |-> id, variant_seed |-> "seed_r", params |-> "prep_params",
    true_answer |-> "prep_true_answer", options |-> "prep_options", broken |-> FALSE,
    instance_question_id |-> NULL, question_id |-> 1, open |-> TRUE, tx |-> NOCLIENT ]

\* the modules and questions submissions are saved and graded with: every
\* parse result with each grading method, and every grade result (grade is
\* only ever called for Internal grading)
SubmitConfigs ==
  { <<[generate |-> NoResult, prepare |-> NoResult, parse |-> ps, grade |-> GradeScored,
       render |-> NoResult],
      Question(m)>> :
      ps \in Results("parse", ParseData), m \in {"Internal", "External", "Manual"} }
  \cup
  { <<[generate |-> NoResult, prepare |-> NoResult, parse |-> ParseEcho, grade |-> gr,
       render |-> NoResult],
      Question("Internal")>> :
      gr \in Results("grade", GradeData) }

\* saving and grading start from a store that holds two variants
InitSubmit ==
  /\ variants = <<ExistingVariant(1), ExistingVariant(2)>>
  /\ submissions = <<>>
  /\ grading_jobs = <<>>
  /\ errors = <<>>
  /\ queue = <<>>
  /\ \E c \in SubmitConfigs : module = c[1] /\ question = c[2]
  /\ messageQueue \in (IF question.grading_method = "External" THEN {"up", "down"}
                       ELSE {"up"})
  /\ app = [s \in Sessions |-> NoApp]
  /\ pc = [p \in Tasks |-> "idle"]
  /\ loc = [p \in Tasks |-> Fresh]

\* one caller at a time saving and grading submissions
NextSubmit ==
  \E p \in SeqTasks :
    \/ CallSaveSubmission(p)
    \/ CallGradeVariant(p)
    \/ CallSaveAndGradeSubmission(p)
    \/ BeginTransaction(p)
    \/ GetModule(p)
    \/ Parse(p)
    \/ WriteCourseErrs(p)
    \/ SubmissionsInsert(p)
    \/ SelectSubmission(p)
    \/ Grade(p)
    \/ GradingJobsInsert(p)
    \/ EndTransaction(p)
    \/ Return(p)

SpecSubmit == InitSubmit /\ [][NextSubmit]_vars

\* a module whose generate returns the errors g and whose prepare, parse and
\* grade return the errors e, each with the data of a working module
OpsModule(g, e) ==
  [ generate |-> [courseErrs |-> [i \in DOMAIN g |-> Error("generate", g[i].fatal)],
                  data |-> [params |-> "gen_params", true_answer |-> "gen_true_answer",
                            options |-> "gen_options"]],
    prepare |-> [courseErrs |-> [i \in DOMAIN e |-> Error("prepare", e[i].fatal)],
                 data |-> [params |-> "prep_params", true_answer |-> "prep_true_answer",
                           options |-> "prep_options"]],
    parse |-> [courseErrs |-> [i \in DOMAIN e |-> Error("parse", e[i].fatal)],
               data |-> ParseEcho.data],
    grade |-> [courseErrs |-> [i \in DOMAIN e |-> Error("grade", e[i].fatal)],
               data |-> GradeScored.data],
    render |-> [courseErrs |-> [i \in DOMAIN e |-> Error("render", e[i].fatal)],
                data |-> NoData] ]

\* the modules and questions the four operations run with together
OpsConfigs ==
  { <<OpsModule(g, e), Question(m)>> :
      g \in {<<>>, <<Error("generate", TRUE)>>},
      e \in {<<>>, <<Error("any", FALSE), Error("any", TRUE)>>},
      m \in {"Internal", "External"} }

\* the four operations start from an empty store
InitOps ==
  /\ variants = <<>>
  /\ submissions = <<>>
  /\ grading_jobs = <<>>
  /\ errors = <<>>
  /\ queue = <<>>
  /\ \E c \in OpsConfigs : module = c[1] /\ question = c[2]
  /\ messageQueue = "up"
  /\ app = [s \in Sessions |-> NoApp]
  /\ pc = [p \in Tasks |-> "idle"]
  /\ loc = [p \in Tasks |-> Fresh]

\* the variant created last
LatestVariant(p) == loc'[p].variant_arg = Max(Ids(variants))

\* one caller at a time, calling any of the four operations: ensureVariant
\* without a seed and for an open variant, the others for the variant
\* created last, gradeVariant without check_submission_id
NextOps ==
  \E p \in SeqTasks :
    \/ CallEnsureVariant(p) /\ loc'[p].options = UNDEF /\ loc'[p].require_open
    \/ CallSaveSubmission(p) /\ LatestVariant(p)
    \/ CallGradeVariant(p) /\ LatestVariant(p) /\ loc'[p].check_submission_id = NULL
    \/ CallSaveAndGradeSubmission(p) /\ LatestVariant(p)
    \/ BeginTransaction(p)
    \/ SelectVariant(p)
    \/ SelectQuestion(p)
    \/ GetModule(p)
    \/ Generate(p)
    \/ Prepare(p)
    \/ VariantsInsert(p)
    \/ Parse(p)
    \/ WriteCourseErrs(p)
    \/ SubmissionsInsert(p)
    \/ SelectSubmission(p)
    \/ Grade(p)
    \/ GradingJobsInsert(p)
    \/ EndTransaction(p)
    \/ Return(p)

SpecOps == InitOps /\ [][NextOps]_vars

\* the modules of the error sink's call sites: every capability returns the
\* same errors
SinkConfigs == { <<OpsModule(<<>>, e), Question("Internal")>> : e \in ErrLists("any") }

InitSink ==
  /\ variants = <<>>
  /\ submissions = <<>>
  /\ grading_jobs = <<>>
  /\ errors = <<>>
  /\ queue = <<>>
  /\ \E c \in SinkConfigs : module = c[1] /\ question = c[2]
  /\ messageQueue = "up"
  /\ app = [s \in Sessions |-> NoApp]
  /\ pc = [p \in Tasks |-> "idle"]
  /\ loc = [p \in Tasks |-> Fresh]

\* one caller at a time, calling the four operations and _render
NextSink ==
  \/ NextOps
  \/ \E p \in SeqTasks :
       \/ CallRender(p)
       \/ Render(p)
       \/ RenderWriteCourseErrs(p)
       \/ RenderReturn(p)

SpecSink == InitSink /\ [][NextSink]_vars

\* ------------------------------------------- concurrent calls for one slot
\* the modules two concurrent callers create variants with
RaceConfigs ==
  { <<OpsModule(g, <<>>), Question("Internal")>> :
      g \in {<<>>, <<Error("generate", TRUE)>>} }

\* the callers start from an empty store: the slot has no variant
InitRace ==
  /\ variants = <<>>
  /\ submissions = <<>>
  /\ grading_jobs = <<>>
  /\ errors = <<>>
  /\ queue = <<>>
  /\ \E c \in RaceConfigs : module = c[1] /\ question = c[2]
  /\ messageQueue = "up"
  /\ app = [s \in Sessions |-> NoApp]
  /\ pc = [p \in Tasks |-> "idle"]
  /\ loc = [p \in Tasks |-> Fresh]

\* two callers, each calling ensureVariant once for the slot, with
\* require_open and without a seed; their steps interleave at every
\* asynchronous call
NextRace ==
  \E p \in Tasks :
    \/ /\ CallEnsureVariant(p)
       /\ loc'[p].instance_question_id # NULL
       /\ loc'[p].question_id = NULL
       /\ loc'[p].options = UNDEF
       /\ loc'[p].require_open
    \/ BeginTransaction(p)
    \/ SelectVariant(p)
    \/ SelectQuestion(p)
    \/ GetModule(p)
    \/ Generate(p)
    \/ Prepare(p)
    \/ VariantsInsert(p)
    \/ WriteCourseErrs(p)
    \/ EndTransaction(p)

SpecRace == InitRace /\ [][NextRace]_vars

\* ------------------------------------- concurrent save and grade of a variant
\* a submission saved earlier: what a save with an echoing parse wrote
ExistingSubmission(id, variant_id) ==
  [ id |-> id, variant_id |-> variant_id, submitted_answer |-> "a1",
    raw_submitted_answer |-> "a1", format_errors |-> "format_errors",
    gradable |-> "true", tx |-> NOCLIENT ]

\* the modules and questions two concurrent callers save and grade with
InterleaveConfigs ==
  { <<[generate |-> NoResult, prepare |-> NoResult, parse |-> ParseEcho,
       grade |-> GradeScored, render |-> NoResult],
      Question(m)>> : m \in {"Internal", "External"} }

\* the callers start from a store with one variant and one submission of it
InitInterleave ==
  /\ variants = <<ExistingVariant(1)>>
  /\ submissions = <<ExistingSubmission(1, 1)>>
  /\ grading_jobs = <<>>
  /\ errors = <<>>
  /\ queue = <<>>
  /\ \E c \in InterleaveConfigs : module = c[1] /\ question = c[2]
  /\ messageQueue = "up"
  /\ app = [s \in Sessions |-> NoApp]
  /\ pc = [p \in Tasks |-> "idle"]
  /\ loc = [p \in Tasks |-> Fresh]

\* two callers, each making one call of saveSubmission, gradeVariant or
\* saveAndGradeSubmission for the variant; their steps interleave at every
\* asynchronous call
NextInterleave ==
  \E p \in Tasks :
    \/ CallSaveSubmission(p)
    \/ CallGradeVariant(p)
    \/ CallSaveAndGradeSubmission(p)
    \/ BeginTransaction(p)
    \/ GetModule(p)
    \/ Parse(p)
    \/ WriteCourseErrs(p)
    \/ SubmissionsInsert(p)
    \/ SelectSubmission(p)
    \/ Grade(p)
    \/ GradingJobsInsert(p)
    \/ EndTransaction(p)

SpecInterleave == InitInterleave /\ [][NextInterleave]_vars

\* ------------------------------------ concurrent calls of the four operations
\* the modules two concurrent callers run with: with and without course
\* errors from each capability, Internal grading
ConcurrentConfigs ==
  { <<OpsModule(g, e), Question("Internal")>> :
      g \in {<<>>, <<Error("generate", TRUE)>>},
      e \in {<<>>, <<Error("any", FALSE), Error("any", TRUE)>>} }

\* the callers start from a store that holds one variant
InitConcurrent ==
  /\ variants = <<ExistingVariant(1)>>
  /\ submissions = <<>>
  /\ grading_jobs = <<>>
  /\ errors = <<>>
  /\ queue = <<>>
  /\ \E c \in ConcurrentConfigs : module = c[1] /\ question = c[2]
  /\ messageQueue = "up"
  /\ app = [s \in Sessions |-> NoApp]
  /\ pc = [p \in Tasks |-> "idle"]
  /\ loc = [p \in Tasks |-> Fresh]

\* two callers, each making one call of one of the four operations:
\* ensureVariant without a seed and for an open variant, gradeVariant
\* without check_submission_id; their steps interleave at every
\* asynchronous call
NextConcurrent ==
  \E p \in Tasks :
    \/ CallEnsureVariant(p) /\ loc'[p].options = UNDEF /\ loc'[p].require_open
    \/ CallSaveSubmission(p)
    \/ CallGradeVariant(p) /\ loc'[p].check_submission_id = NULL
    \/ CallSaveAndGradeSubmission(p)
    \/ BeginTransaction(p)
    \/ SelectVariant(p)
    \/ SelectQuestion(p)
    \/ GetModule(p)
    \/ Generate(p)
    \/ Prepare(p)
    \/ VariantsInsert(p)
    \/ Parse(p)
    \/ WriteCourseErrs(p)
    \/ SubmissionsInsert(p)
    \/ SelectSubmission(p)
    \/ Grade(p)
    \/ GradingJobsInsert(p)
    \/ EndTransaction(p)

SpecConcurrent == InitConcurrent /\ [][NextConcurrent]_vars

\* a step of task p's operation once it is called: the callback of the
\* database call, plugin call or transaction begin or end it waits for
Step(p) ==
  \/ BeginTransaction(p)
  \/ SelectVariant(p)
  \/ SelectQuestion(p)
  \/ GetModule(p)
  \/ Generate(p)
  \/ Prepare(p)
  \/ VariantsInsert(p)
  \/ Parse(p)
  \/ WriteCourseErrs(p)
  \/ SubmissionsInsert(p)
  \/ SelectSubmission(p)
  \/ Grade(p)
  \/ GradingJobsInsert(p)
  \/ EndTransaction(p)

\* every database call, plugin call and transaction begin or end invokes
\* its callback: a task that waits for one takes its next step
SpecConcurrentFair == SpecConcurrent /\ \A p \in Tasks : WF_vars(Step(p))

\* ------------------------------------------------- rendering a question page
\* a variant created earlier: open or closed, broken or not, floating or
\* bound to the slot
RenderedVariants ==
  { [ExistingVariant(1) EXCEPT !.open = open, !.broken = broken,
                               !.instance_question_id = slot] :
      open \in BOOLEAN, broken \in BOOLEAN, slot \in {NULL} \cup SlotIds }

\* the modules pages are rendered with: generate with or without a fatal
\* error, the other capabilities with or without course errors
RenderConfigs ==
  { <<OpsModule(g, e), Question("Internal")>> :
      g \in {<<>>, <<Error("generate", TRUE)>>},
      e \in {<<>>, <<Error("any", FALSE), Error("any", TRUE)>>} }

\* a page is rendered on a store that holds one variant, with or without a
\* submission
InitRender ==
  /\ variants \in {<<v>> : v \in RenderedVariants}
  /\ submissions \in {<<>>, <<ExistingSubmission(1, 1)>>}
  /\ grading_jobs = <<>>
  /\ errors = <<>>
  /\ queue = <<>>
  /\ \E c \in RenderConfigs : module = c[1] /\ question = c[2]
  /\ messageQueue = "up"
  /\ app = [s \in Sessions |-> NoApp]
  /\ pc = [p \in Tasks |-> "idle"]
  /\ loc = [p \in Tasks |-> Fresh]

\* one call of getAndRenderVariant, with the ensureVariant and the _render
\* it makes
NextRender ==
  \E p \in SeqTasks :
    \/ CallGetAndRenderVariant(p)
    \/ VariantsSelect(p)
    \/ BeginTransaction(p)
    \/ SelectVariant(p)
    \/ SelectQuestion(p)
    \/ GetModule(p)
    \/ Generate(p)
    \/ Prepare(p)
    \/ VariantsInsert(p)
    \/ WriteCourseErrs(p)
    \/ EndTransaction(p)
    \/ AfterEnsureVariant(p)
    \/ Urls(p)
    \/ QuerySubmissions(p)
    \/ GetEffectiveQuestionType(p)
    \/ Render(p)
    \/ RenderWriteCourseErrs(p)
    \/ RenderReturn(p)
    \/ AfterRender(p)
    \/ QueryErrors(p)

SpecRender == InitRender /\ [][NextRender]_vars

\* ------------------------------------------------------- the frontend alone
\* the frontend's sessions start with the AppModel initialize leaves
InitApp ==
  /\ variants = <<>>
  /\ submissions = <<>>
  /\ grading_jobs = <<>>
  /\ errors = <<>>
  /\ queue = <<>>
  /\ module = OpsModule(<<>>, <<>>)
  /\ question = Question("Internal")
  /\ messageQueue = "up"
  /\ app = [s \in Sessions |-> NoApp]
  /\ pc = [p \in Tasks |-> "idle"]
  /\ loc = [p \in Tasks |-> Fresh]

\* in each session the user's role gets set and views ask for permissions
NextApp == \E s \in Sessions : SetUserRole(s) \/ CallHasPermission(s)

SpecApp == InitApp /\ [][NextApp]_vars

\* ---------------------------------------------------------------- claims
\* Vocabulary of the claims, stated apart from the model's own operators.

\* the list holds at least one error with fatal = true
AnyFatal(errs) == \E i \in 1..Len(errs) : errs[i].fatal = TRUE

Called(p, capability) == \E i \in 1..Len(loc[p].calls) : loc[p].calls[i] = capability

\* a bag as it is stored: an absent bag is stored as the empty bag {}
Stored(x) == IF x = "undefined" THEN "{}" ELSE x

\* the fields of row v are those of the plugin data d
FieldsOf(v, d) ==
  /\ v.params = Stored(d.params)
  /\ v.true_answer = Stored(d.true_answer)
  /\ v.options = Stored(d.options)

\* task p runs ensureVariant, took the creation path, and the row it
\* inserted is in the table (written in its transaction, or committed)
Creating(p) ==
  /\ loc[p].op = "ensureVariant"
  /\ ~loc[p].hit
  /\ loc[p].variant_id # NULL
  /\ \/ pc[p] \in {"writeCourseErrs", "endTransaction"}
     \/ pc[p] = "done" /\ loc[p].cbErr = NOERR

CreatedRow(p) == Row(variants, loc[p].variant_id)

\* ensureVariant has returned success to its caller with a variant it created
Created(p) == Creating(p) /\ pc[p] = "done"

\* C1: whenever generate returns a fatal error, prepare is never invoked
\* during that creation and the variant row written is broken.
C1_FatalGenerateBrokenNoPrepare ==
  \A p \in Tasks :
    (loc[p].op = "ensureVariant" /\ AnyFatal(module.generate.courseErrs)) =>
      /\ ~Called(p, "prepare")
      /\ Creating(p) => CreatedRow(p).broken = TRUE

C1_Witness ==
  \E p \in Tasks :
    /\ Created(p)
    /\ Called(p, "generate")
    /\ AnyFatal(module.generate.courseErrs)
    /\ CreatedRow(p).tx = NOCLIENT
    /\ CreatedRow(p).broken

\* C2: when neither generate nor prepare returns a fatal error, the variant
\* row is not broken and its params, true_answer and options are those
\* prepare returned (an absent bag being stored as {}), not generate's.
C2_NoFatalPersistsPrepareData ==
  \A p \in Tasks :
    (Creating(p) /\ ~AnyFatal(module.generate.courseErrs)
                 /\ ~AnyFatal(module.prepare.courseErrs)) =>
      /\ CreatedRow(p).broken = FALSE
      /\ FieldsOf(CreatedRow(p), module.prepare.data)
      /\ \A f \in {"params", "true_answer", "options"} :
           module.prepare.data[f] # module.generate.data[f] =>
             CreatedRow(p)[f] # module.generate.data[f]

C2_Witness ==
  \E p \in Tasks :
    /\ Created(p)
    /\ CreatedRow(p).tx = NOCLIENT
    /\ ~AnyFatal(module.generate.courseErrs)
    /\ ~AnyFatal(module.prepare.courseErrs)
    /\ module.generate.data.params = "gen_params"
    /\ CreatedRow(p).params = "prep_params"
    /\ CreatedRow(p).true_answer = "prep_true_answer"
    /\ CreatedRow(p).options = "prep_options"

\* C3: the broken flag of a created variant is true exactly when the errors
\* of generate, together with those of prepare when prepare ran, hold a
\* fatal one.
C3_BrokenIffFatal ==
  \A p \in Tasks :
    Creating(p) =>
      (CreatedRow(p).broken <=>
         \/ AnyFatal(module.generate.courseErrs)
         \/ Called(p, "prepare") /\ AnyFatal(module.prepare.courseErrs))

C3_Witness ==
  \E p \in Tasks :
    /\ Created(p)
    /\ CreatedRow(p).tx = NOCLIENT
    /\ Len(module.generate.courseErrs) > 0
    /\ ~AnyFatal(module.generate.courseErrs)
    /\ Called(p, "prepare")
    /\ AnyFatal(module.prepare.courseErrs)
    /\ CreatedRow(p).broken

\* C4 as claimed: a broken created variant never had prepare run and holds
\* generate's data only.
C4_BrokenMeansPrepareSkipped ==
  \A p \in Tasks :
    (Creating(p) /\ CreatedRow(p).broken) =>
      /\ ~Called(p, "prepare")
      /\ FieldsOf(CreatedRow(p), module.generate.data)

\* C4 amended: a created variant that is broken because generate returned a
\* fatal error had prepare skipped and holds generate's data only; one that
\* is broken because prepare returned the fatal error had prepare run and
\* holds prepare's data.
C4_BrokenByGenerateOrPrepare ==
  \A p \in Tasks :
    (Creating(p) /\ CreatedRow(p).broken) =>
      IF AnyFatal(module.generate.courseErrs)
      THEN /\ ~Called(p, "prepare")
           /\ FieldsOf(CreatedRow(p), module.generate.data)
      ELSE /\ Called(p, "prepare")
           /\ AnyFatal(module.prepare.courseErrs)
           /\ FieldsOf(CreatedRow(p), module.prepare.data)

C4_Witness ==
  \E p \in Tasks :
    /\ Created(p)
    /\ CreatedRow(p).tx = NOCLIENT
    /\ CreatedRow(p).broken
    /\ ~AnyFatal(module.generate.courseErrs)
    /\ module.generate.data.params = "gen_params"
    /\ CreatedRow(p).params = "prep_params"

\* the variants of a table bound to a slot
Bound(table, slot) == {table[i] : i \in {j \in DOMAIN table : table[j].instance_question_id = slot}}

\* task p called ensureVariant for a slot with require_open = true
SlotCall(p) ==
  /\ loc[p].op = "ensureVariant"
  /\ loc[p].instance_question_id # NULL
  /\ loc[p].require_open

\* C5: with an open variant bound to the slot when ensureVariant(slot,
\* require_open = true) is called, the call inserts no variant row and no
\* CourseError row, invokes neither generate nor prepare, and returns the
\* most recent open variant bound to the slot; as the store is left as it
\* was, every further such call returns that same variant.
C5_ReuseIdempotent ==
  \A p \in Tasks :
    LET open == {v \in Bound(loc[p].pre.variants, loc[p].instance_question_id) : v.open}
    IN (SlotCall(p) /\ open # {}) =>
         /\ loc[p].calls = <<>>
         /\ loc[p].errRows = 0
         /\ Visible(variants, p) = loc[p].pre.variants
         /\ Visible(errors, p) = loc[p].pre.errors
         /\ (pc[p] = "done" /\ loc[p].cbErr = NOERR) =>
               /\ loc[p].cbValue = Max({v.id : v \in open})
               /\ \A v \in Bound(Committed(variants), loc[p].instance_question_id) :
                    v.open => v.id <= loc[p].cbValue

C5_Witness ==
  \E p \in Tasks :
    /\ SlotCall(p)
    /\ pc[p] = "done"
    /\ loc[p].cbErr = NOERR
    /\ loc[p].hit
    /\ \E v \in Bound(loc[p].pre.variants, loc[p].instance_question_id) :
         v.open /\ v.id = loc[p].cbValue
    /\ Len(variants) = 1

\* C6: when every variant bound to the slot is closed, ensureVariant(slot,
\* require_open = true) does not return one of them: it inserts a new
\* variant, bound to the slot and open, and returns its (new) id.
C6_ClosedVariantNotReused ==
  \A p \in Tasks :
    LET bound == Bound(loc[p].pre.variants, loc[p].instance_question_id)
    IN (SlotCall(p) /\ bound # {} /\ (\A v \in bound : ~v.open)
          /\ pc[p] = "done" /\ loc[p].cbErr = NOERR) =>
         /\ loc[p].cbValue \notin Ids(loc[p].pre.variants)
         /\ loc[p].cbValue \in Ids(Committed(variants))
         /\ Row(variants, loc[p].cbValue).instance_question_id = loc[p].instance_question_id
         /\ Row(variants, loc[p].cbValue).open
         /\ Len(Committed(variants)) = Len(loc[p].pre.variants) + 1

C6_Witness ==
  \E p \in Tasks :
    /\ SlotCall(p)
    /\ pc[p] = "done"
    /\ loc[p].cbErr = NOERR
    /\ \E v \in Bound(loc[p].pre.variants, loc[p].instance_question_id) : ~v.open
    /\ \A v \in Bound(loc[p].pre.variants, loc[p].instance_question_id) : ~v.open
    /\ loc[p].cbValue \notin Ids(loc[p].pre.variants)
    /\ Len(Committed(variants)) = 2

\* task p is saving a submission (saveSubmission, or the save step of
\* saveAndGradeSubmission), its submissions_insert has answered with a row
\* and the row has not been rolled back
Saved(p) ==
  /\ loc[p].op \in {"saveSubmission", "saveAndGradeSubmission"}
  /\ loc[p].submission_id \in Ids(Visible(submissions, p))

\* the row task p's save inserted
SavedRow(p) == Row(Visible(submissions, p), loc[p].submission_id)

\* C7: when parse returns at least one fatal error, the submission row that
\* saveSubmission (or the save step of saveAndGradeSubmission) inserts, and
\* every row that stays in the table, has gradable = false, whatever parse
\* returned for gradable.
C7_FatalParseNotGradable ==
  AnyFatal(module.parse.courseErrs) =>
    /\ \A p \in Tasks : Saved(p) => SavedRow(p).gradable = "false"
    /\ \A i \in DOMAIN submissions : submissions[i].gradable = "false"

C7_Witness ==
  \E p \in Tasks :
    /\ Saved(p)
    /\ pc[p] = "done"
    /\ loc[p].cbErr = NOERR
    /\ AnyFatal(module.parse.courseErrs)
    /\ module.parse.data.gradable = "true"
    /\ SavedRow(p).gradable = "false"
    /\ SavedRow(p).tx = NOCLIENT

\* C8: the submission row a save inserts has raw_submitted_answer equal to
\* the answer the caller supplied in submission.submitted_answer, whatever
\* parse returned.
C8_RawAnswerIsCallersAnswer ==
  \A p \in Tasks :
    Saved(p) => SavedRow(p).raw_submitted_answer = loc[p].submission.submitted_answer

\* the id of the most recent submission of a variant, NULL when it has none
MostRecent(rows, variant_id) ==
  LET mine == {rows[i].id : i \in {j \in DOMAIN rows : rows[j].variant_id = variant_id}}
  IN IF mine = {} THEN NULL ELSE Max(mine)

\* task p called gradeVariant with a check_submission_id that is not the id
\* of the variant's most recent submission
StaleCheck(p) ==
  /\ loc[p].op = "gradeVariant"
  /\ loc[p].check_submission_id # NULL
  /\ loc[p].check_submission_id # MostRecent(loc[p].pre.submissions, loc[p].variant_arg)

\* task p's operation has so far added no grading job and no error row,
\* has not invoked grade and has sent nothing to the grading queue
NothingGraded(p) ==
  /\ Visible(grading_jobs, p) = loc[p].pre.grading_jobs
  /\ Visible(errors, p) = loc[p].pre.errors
  /\ loc[p].errRows = 0
  /\ ~Called(p, "grade")
  /\ queue = loc[p].pre.queue
  /\ loc[p].sent = <<>>

\* the caller of task p's operation was told it succeeded, unless a database
\* call itself failed; success means the transaction was committed
SucceededUnlessDatabaseFailed(p) ==
  pc[p] = "done" =>
    /\ loc[p].cbCount = 1
    /\ loc[p].cbErr \in {NOERR, "db_error"}
    /\ loc[p].cbErr = NOERR => loc[p].txEnd = <<"commit">>
    /\ (loc[p].txBegin = 1 /\ loc[p].txEnd = <<"commit">>) => loc[p].cbErr = NOERR

\* C9: gradeVariant with a check_submission_id that is not the id of the
\* variant's most recent submission does nothing and succeeds: no grading
\* job and no error row is added, grade is not invoked, nothing is sent to
\* the grading queue, and the caller gets no error (a failing database call
\* apart).
C9_StaleCheckIsNoOp ==
  \A p \in Tasks :
    StaleCheck(p) => (NothingGraded(p) /\ SucceededUnlessDatabaseFailed(p))

C9_Witness ==
  \E p \in Tasks :
    /\ StaleCheck(p)
    /\ MostRecent(loc[p].pre.submissions, loc[p].variant_arg) # NULL
    /\ pc[p] = "done"
    /\ loc[p].cbErr = NOERR
    /\ loc[p].txEnd = <<"commit">>
    /\ grading_jobs = <<>>

\* task p called gradeVariant for a variant that has no submission
NoSubmissions(p) ==
  /\ loc[p].op = "gradeVariant"
  /\ MostRecent(loc[p].pre.submissions, loc[p].variant_arg) = NULL

\* C10: gradeVariant on a variant with no submission succeeds: the caller
\* gets no error and the transaction is committed (a failing database call
\* apart), no grading job and no error row is added, and NoSubmissionError
\* is never what the caller receives.
C10_NoSubmissionSucceeds ==
  \A p \in Tasks :
    NoSubmissions(p) =>
      /\ NothingGraded(p)
      /\ SucceededUnlessDatabaseFailed(p)
      /\ loc[p].err # "NoSubmissionError"
      /\ loc[p].cbErr # "NoSubmissionError"
      /\ pc[p] = "endTransaction" => loc[p].err \in {NOERR, "db_error"}

C10_Witness ==
  \E p \in Tasks :
    /\ NoSubmissions(p)
    /\ loc[p].check_submission_id = NULL
    /\ pc[p] = "done"
    /\ loc[p].cbErr = NOERR
    /\ loc[p].txEnd = <<"commit">>
    /\ submissions # <<>>
    /\ grading_jobs = <<>>

\* task p's gradeVariant, or the grade step of its saveAndGradeSubmission,
\* found a submission to grade and the caller was told it succeeded
Graded(p) ==
  /\ loc[p].phase = "grade"
  /\ loc[p].selected # NULL
  /\ pc[p] = "done"
  /\ loc[p].cbErr = NOERR

\* exactly one grading job was added by task p's operation: the last row of
\* the table, for the submission that was selected
OneJobAdded(p) ==
  /\ Len(Committed(grading_jobs)) = Len(loc[p].pre.grading_jobs) + 1
  /\ Committed(grading_jobs)[Len(Committed(grading_jobs))].id = loc[p].grading_job
  /\ Row(grading_jobs, loc[p].grading_job).submission_id = loc[p].selected
  /\ loc[p].grading_job \notin Ids(loc[p].pre.grading_jobs)

\* C11: a successful grading that found a submission inserts exactly one
\* grading job; for an Internal question it makes no send to the grading
\* queue, for an External question exactly one, carrying the id of that job.
C11_OneJobAndSendIffExternal ==
  \A p \in Tasks :
    Graded(p) =>
      /\ OneJobAdded(p)
      /\ question.grading_method = "Internal" =>
            (loc[p].sent = <<>> /\ queue = loc[p].pre.queue)
      /\ question.grading_method = "External" =>
            /\ loc[p].sent = <<loc[p].grading_job>>
            /\ \A i \in DOMAIN queue :
                 i > Len(loc[p].pre.queue) => queue[i].grading_job_id = loc[p].grading_job
            /\ Len(queue) <= Len(loc[p].pre.queue) + 1

C11_Witness ==
  \E p \in Tasks :
    /\ Graded(p)
    /\ loc[p].op = "gradeVariant"
    /\ question.grading_method = "External"
    /\ loc[p].sent = <<loc[p].grading_job>>
    /\ Len(queue) = Len(loc[p].pre.queue) + 1
    /\ queue[Len(queue)].grading_job_id = loc[p].grading_job
    /\ Row(grading_jobs, loc[p].grading_job).tx = NOCLIENT

\* task p's saveSubmission failed after it had written course errors
SaveFailedAfterErrors(p) ==
  /\ loc[p].op = "saveSubmission"
  /\ loc[p].errRows > 0
  /\ loc[p].err # NOERR
  /\ pc[p] = "done"

\* C12: when a step of saveSubmission fails after parse's course errors were
\* written in the transaction (the insert of the submission in particular),
\* the caller receives the failure and nothing of the operation is kept: the
\* errors table and the submissions table are as they were before the call.
C12_SaveFailureRollsBackErrors ==
  \A p \in Tasks :
    SaveFailedAfterErrors(p) =>
      /\ errors = loc[p].pre.errors
      /\ submissions = loc[p].pre.submissions
      /\ loc[p].cbErr = loc[p].err
      /\ loc[p].txEnd = <<"rollback">>

C12_Witness ==
  \E p \in Tasks :
    /\ SaveFailedAfterErrors(p)
    /\ loc[p].errRows = Len(module.parse.courseErrs)
    /\ loc[p].submission_id = NULL
    /\ loc[p].cbErr = "db_error"
    /\ errors = loc[p].pre.errors
    /\ submissions = loc[p].pre.submissions

\* the rows of the four tables that task p's transaction still owns
Owned(p) ==
  LET mine(table) == {i \in DOMAIN table : table[i].tx = p}
  IN mine(variants) \cup mine(submissions) \cup mine(grading_jobs) \cup mine(errors)

\* C13: each call of the four operations opens one transaction (none when
\* beginTransaction itself fails) and ends it exactly once, before the
\* caller's callback runs, which runs once: with a commit only when no step
\* handed on a failure, with a rollback when one did; when the callback has
\* run no row is left in an open transaction.
C13_OneTransactionEndedOnce ==
  \A p \in Tasks :
    /\ loc[p].txBegin \in {0, 1}
    /\ Len(loc[p].txEnd) <= loc[p].txBegin
    /\ loc[p].cbCount <= 1
    /\ pc[p] \notin {"idle", "beginTransaction", "done"} =>
          (loc[p].txBegin = 1 /\ loc[p].txEnd = <<>> /\ loc[p].cbCount = 0)
    /\ pc[p] \in {"idle", "beginTransaction"} => (loc[p].txBegin = 0 /\ Owned(p) = {})
    /\ pc[p] = "done" =>
          /\ loc[p].cbCount = 1
          /\ Len(loc[p].txEnd) = loc[p].txBegin
          /\ Owned(p) = {}
          /\ loc[p].txBegin = 0 => loc[p].cbErr = "db_error"
          /\ loc[p].txEnd = <<"commit">> => (loc[p].err = NOERR /\ loc[p].cbErr = NOERR)
          /\ loc[p].err # NOERR => loc[p].txEnd = <<"rollback">>
          /\ loc[p].txEnd = <<"rollback">> => loc[p].cbErr # NOERR

C13_Witness ==
  \E p \in Tasks :
    /\ loc[p].op = "saveAndGradeSubmission"
    /\ pc[p] = "done"
    /\ loc[p].submission_id # NULL
    /\ loc[p].err = "plugin_crash"
    /\ loc[p].txBegin = 1
    /\ loc[p].txEnd = <<"rollback">>
    /\ loc[p].cbCount = 1
    /\ \E i \in DOMAIN variants : variants[i].tx = NOCLIENT

\* the committed store is as it was when task p's operation was called
NothingCommitted(p) ==
  /\ Committed(variants) = loc[p].pre.variants
  /\ Committed(submissions) = loc[p].pre.submissions
  /\ Committed(grading_jobs) = loc[p].pre.grading_jobs
  /\ Committed(errors) = loc[p].pre.errors

\* C14: saveAndGradeSubmission is atomic over save and grade: until its one
\* commit nothing it wrote is committed; when it fails (a grading step
\* after the submission was inserted included) the submission, the course
\* errors and the grading job are all gone; when it succeeds they were
\* committed together by that one commit.
C14_SaveAndGradeAtomic ==
  \A p \in Tasks :
    loc[p].op = "saveAndGradeSubmission" =>
      /\ pc[p] # "done" => NothingCommitted(p)
      /\ (pc[p] = "done" /\ loc[p].cbErr # NOERR) =>
            /\ NothingCommitted(p)
            /\ Owned(p) = {}
            /\ "commit" \notin {loc[p].txEnd[i] : i \in DOMAIN loc[p].txEnd}
      /\ (pc[p] = "done" /\ loc[p].cbErr = NOERR) =>
            /\ loc[p].txEnd = <<"commit">>
            /\ Owned(p) = {}
            /\ loc[p].submission_id \in Ids(Committed(submissions))
            /\ loc[p].selected = loc[p].submission_id
            /\ loc[p].grading_job \in Ids(Committed(grading_jobs))
            /\ Len(Committed(errors)) = Len(loc[p].pre.errors) + loc[p].errRows

C14_Witness ==
  \E p \in Tasks :
    /\ loc[p].op = "saveAndGradeSubmission"
    /\ pc[p] = "done"
    /\ loc[p].submission_id # NULL
    /\ loc[p].selected = loc[p].submission_id
    /\ loc[p].errRows > 0
    /\ loc[p].cbErr = "db_error"
    /\ loc[p].grading_job = NULL
    /\ submissions = loc[p].pre.submissions
    /\ errors = loc[p].pre.errors

\* task p's saveAndGradeSubmission got fatal course errors from parse and
\* its submissions_insert has answered with a row
FatalSave(p) ==
  /\ loc[p].op = "saveAndGradeSubmission"
  /\ AnyFatal(module.parse.courseErrs)
  /\ loc[p].submission_id # NULL

\* C15: in saveAndGradeSubmission a fatal course error of parse does not
\* stop grading: the submission is inserted with gradable = false and the
\* grading step runs next, in the same transaction, with
\* check_submission_id the id of the submission just inserted; when the
\* operation succeeds a grading job for that submission is there.
C15_FatalParseStillGrades ==
  \A p \in Tasks :
    FatalSave(p) =>
      /\ loc[p].phase = "grade"
      /\ loc[p].check_submission_id = loc[p].submission_id
      /\ loc[p].txBegin = 1
      /\ pc[p] # "done" =>
            (loc[p].txEnd = <<>> /\ SavedRow(p).gradable = "false" /\ SavedRow(p).tx = p)
      /\ pc[p] \in {"getModule", "grade", "writeCourseErrs", "gradingJobsInsert"} =>
            loc[p].selected = loc[p].submission_id
      /\ (pc[p] = "endTransaction" /\ loc[p].err = NOERR) =>
            /\ loc[p].selected = loc[p].submission_id
            /\ Row(Visible(grading_jobs, p), loc[p].grading_job).submission_id
                 = loc[p].submission_id
      /\ (pc[p] = "done" /\ loc[p].cbErr = NOERR) =>
            /\ SavedRow(p).gradable = "false"
            /\ Row(Committed(grading_jobs), loc[p].grading_job).submission_id
                 = loc[p].submission_id

C15_Witness ==
  \E p \in Tasks :
    /\ FatalSave(p)
    /\ pc[p] = "done"
    /\ loc[p].cbErr = NOERR
    /\ question.grading_method = "Internal"
    /\ Called(p, "grade")
    /\ loc[p].grading_job \in Ids(Committed(grading_jobs))
    /\ SavedRow(p).gradable = "false"

\* the errors only a failing database call, module resolution or plugin call
\* (its err, not its course errors) or a call without question and slot gives
InfrastructureErrors == {"db_error", "unknown_type", "plugin_crash", "both_null"}

RECURSIVE ReturnedErrs(_)
\* the number of course errors the capabilities in the list of calls returned
ReturnedErrs(calls) ==
  IF calls = <<>> THEN 0
  ELSE Len(module[calls[1]].courseErrs) + ReturnedErrs(Tail(calls))

\* the capabilities of the list of calls returned a fatal course error
ReturnedFatal(calls) ==
  \E i \in DOMAIN calls : AnyFatal(module[calls[i]].courseErrs)

\* task p's operation has told its caller it succeeded
Succeeded(p) == pc[p] = "done" /\ loc[p].cbErr = NOERR

\* C16: course errors returned by generate, prepare, parse or grade never
\* abort the operation: an operation fails only with an infrastructure
\* error, and one that succeeds has committed, has persisted one CourseError
\* row for each error returned, and has persisted its variant, submission or
\* grading job, marked broken or not gradable when an error was fatal.
C16_CourseErrorsAreData ==
  \A p \in Tasks :
    /\ loc[p].err \in InfrastructureErrors \cup {NOERR}
    /\ loc[p].cbErr \in InfrastructureErrors \cup {NOERR}
    /\ Succeeded(p) =>
          /\ loc[p].txEnd = <<"commit">>
          /\ loc[p].errRows = ReturnedErrs(loc[p].calls)
          /\ Len(Committed(errors)) = Len(loc[p].pre.errors) + ReturnedErrs(loc[p].calls)
          /\ (loc[p].op = "ensureVariant" /\ ~loc[p].hit) =>
                /\ loc[p].cbValue \in Ids(Committed(variants))
                /\ Row(variants, loc[p].cbValue).broken = ReturnedFatal(loc[p].calls)
          /\ loc[p].op \in {"saveSubmission", "saveAndGradeSubmission"} =>
                /\ loc[p].cbValue \in Ids(Committed(submissions))
                /\ AnyFatal(module.parse.courseErrs) =>
                      Row(submissions, loc[p].cbValue).gradable = "false"
          /\ (loc[p].phase = "grade" /\ loc[p].selected # NULL) =>
                /\ loc[p].grading_job \in Ids(Committed(grading_jobs))
                /\ (Called(p, "grade") /\ AnyFatal(module.grade.courseErrs)) =>
                      Row(grading_jobs, loc[p].grading_job).gradable = "false"

C16_Witness ==
  \E p \in Tasks :
    /\ Succeeded(p)
    /\ loc[p].op = "saveAndGradeSubmission"
    /\ loc[p].calls = <<"parse", "grade">>
    /\ AnyFatal(module.parse.courseErrs)
    /\ AnyFatal(module.grade.courseErrs)
    /\ loc[p].errRows = 4
    /\ Row(submissions, loc[p].cbValue).gradable = "false"
    /\ Row(grading_jobs, loc[p].grading_job).gradable = "false"
    /\ \E i \in DOMAIN variants : variants[i].broken /\ variants[i].tx = NOCLIENT

\* C17: a failing database step or module resolution is always delivered to
\* the caller as an error and the transaction is rolled back: an operation
\* whose step handed on an err ends with a rollback and that err, leaving
\* the store as it was; an operation that reports success has committed and
\* has completed every step (its variant, submission or grading job is
\* there); beginTransaction's own failure is delivered too.
C17_InfrastructureErrorsAbort ==
  \A p \in Tasks :
    pc[p] = "done" =>
      /\ loc[p].err # NOERR =>
            /\ loc[p].cbErr = loc[p].err
            /\ loc[p].cbValue = NULL
            /\ loc[p].txEnd = <<"rollback">>
            /\ NothingCommitted(p)
            /\ Owned(p) = {}
      /\ loc[p].txBegin = 0 => (loc[p].cbErr = "db_error" /\ NothingCommitted(p))
      /\ loc[p].cbErr # NOERR => (loc[p].txEnd # <<"commit">> /\ NothingCommitted(p))
      /\ loc[p].cbErr = NOERR =>
            /\ loc[p].err = NOERR
            /\ loc[p].txEnd = <<"commit">>
            /\ loc[p].op = "ensureVariant" => loc[p].cbValue \in Ids(Committed(variants))
            /\ loc[p].op \in {"saveSubmission", "saveAndGradeSubmission"} =>
                  loc[p].cbValue \in Ids(Committed(submissions))
            /\ loc[p].op = "saveAndGradeSubmission" => loc[p].selected = loc[p].cbValue
            /\ loc[p].selected # NULL =>
                  /\ loc[p].grading_job \in Ids(Committed(grading_jobs))
                  /\ Row(grading_jobs, loc[p].grading_job).submission_id = loc[p].selected

C17_Witness ==
  \E p \in Tasks :
    /\ pc[p] = "done"
    /\ loc[p].op = "saveAndGradeSubmission"
    /\ loc[p].submission_id # NULL
    /\ loc[p].selected = loc[p].submission_id
    /\ loc[p].err = "unknown_type"
    /\ loc[p].cbErr = "unknown_type"
    /\ loc[p].txEnd = <<"rollback">>
    /\ submissions = loc[p].pre.submissions

\* task p's operation holds an open transaction
InTransaction(p) == Len(loc[p].txEnd) < loc[p].txBegin

\* C18: the question's module is resolved, and an unresolved type detected,
\* at a point where the operation holds no open transaction.
C18_ModuleResolvedOutsideTransaction ==
  \A p \in Tasks :
    (pc[p] = "getModule" \/ (loc[p].err = "unknown_type" /\ pc[p] = "endTransaction"))
      => ~InTransaction(p)

\* C19: a message is in the grading queue only for a grading job whose row
\* is committed.
C19_EnqueueAfterCommit ==
  \A i \in DOMAIN queue :
    \E j \in DOMAIN grading_jobs :
      /\ grading_jobs[j].id = queue[i].grading_job_id
      /\ grading_jobs[j].tx = NOCLIENT

\* task p's grading made its send to the grading queue
Sent(p) == loc[p].phase = "grade" /\ loc[p].sent # <<>>

\* the message of task p's send did not reach the queue
Lost(p) == Sent(p) /\ queue = loc[p].pre.queue

\* C20: the send to the grading queue is fire-and-forget: once it is made
\* the series goes on with no error whether the message arrived or not, a
\* lost message does not make the operation fail (only a failing commit
\* can still), and it does not roll the grading job back: when the commit
\* went through the caller is told of success and the job's row is there.
C20_SendIsFireAndForget ==
  \A p \in Tasks :
    Sent(p) =>
      /\ loc[p].sent = <<loc[p].grading_job>>
      /\ loc[p].err = NOERR
      /\ pc[p] \in {"endTransaction", "done"}
      /\ pc[p] = "endTransaction" =>
            Row(grading_jobs, loc[p].grading_job).tx = p
      /\ pc[p] = "done" =>
            /\ loc[p].cbErr \in {NOERR, "db_error"}
            /\ loc[p].txEnd = <<"commit">> =>
                  /\ loc[p].cbErr = NOERR
                  /\ loc[p].grading_job \in Ids(Committed(grading_jobs))

C20_Witness ==
  \E p \in Tasks :
    /\ Lost(p)
    /\ loc[p].op = "gradeVariant"
    /\ pc[p] = "done"
    /\ loc[p].cbErr = NOERR
    /\ loc[p].txEnd = <<"commit">>
    /\ loc[p].grading_job \in Ids(Committed(grading_jobs))
    /\ Row(grading_jobs, loc[p].grading_job).grading_method = "External"

\* the student message the sink is to use for the errors of a capability
SinkMessage(capability) ==
  CASE capability \in {"generate", "prepare"} -> "Error creating question variant"
    [] capability = "parse" -> "Error parsing submission"
    [] capability = "grade" -> "Error grading submission"
    [] capability = "render" -> "Error rendering question"

RECURSIVE ExpectedErrors(_, _)
\* one entry per course error the capabilities called returned, in order:
\* what its CourseError row is to hold
ExpectedErrors(calls, variant_id) ==
  IF calls = <<>> THEN <<>>
  ELSE LET courseErrs == module[calls[1]].courseErrs
       IN [i \in DOMAIN courseErrs |->
             [ variant_id |-> variant_id,
               student_message |-> SinkMessage(calls[1]),
               instructor_message |-> <<"Error: ", courseErrs[i].message>>,
               course_caused |-> TRUE ]]
          \o ExpectedErrors(Tail(calls), variant_id)

\* the rows of table errors task p's operation sees that were not there
\* when it was called, without their ids
NewErrors(p) ==
  LET vis == Visible(errors, p)
      new == SubSeq(vis, Len(loc[p].pre.errors) + 1, Len(vis))
  IN [i \in DOMAIN new |->
        [ variant_id |-> new[i].variant_id,
          student_message |-> new[i].student_message,
          instructor_message |-> new[i].instructor_message,
          course_caused |-> new[i].course_caused ]]

\* the variant task p's operation reports errors for
SinkVariant(p) ==
  IF loc[p].op = "ensureVariant" THEN loc[p].variant_id ELSE loc[p].variant_arg

\* C21: the error sink writes one CourseError row per error of the list it
\* is given, in order and none for an empty list, each with course_caused =
\* true, the variant's id, the error's text and the student message of the
\* call site (creating a variant, parsing, grading, rendering); an operation
\* that succeeds has written a row for every error its capabilities returned.
C21_SinkWritesOneRowPerError ==
  \A p \in Tasks :
    LET new == NewErrors(p)
        expected == ExpectedErrors(loc[p].calls, SinkVariant(p))
    IN pc[p] # "idle" =>
         /\ Len(new) <= Len(expected)
         /\ \A i \in DOMAIN new : new[i] = expected[i]
         /\ pc[p] # "done" => Len(new) = loc[p].errRows
         /\ (loc[p].err = NOERR /\ pc[p] \in {"endTransaction", "renderReturn"}) =>
               new = expected
         /\ (pc[p] = "done" /\ loc[p].cbErr = NOERR) => new = expected

C21_Witness ==
  \E p \in Tasks :
    /\ loc[p].op = "render"
    /\ pc[p] = "done"
    /\ loc[p].cbErr = NOERR
    /\ loc[p].errRows = 1
    /\ {errors[i].student_message : i \in DOMAIN errors} =
          {"Error creating question variant", "Error parsing submission",
           "Error grading submission", "Error rendering question"}
    /\ \A i \in DOMAIN errors : errors[i].course_caused /\ errors[i].tx = NOCLIENT

\* task p's ensureVariant is past the choice of the seed, on the creation path
Seeded(p) ==
  /\ loc[p].op = "ensureVariant"
  /\ loc[p].phase = "variant"

\* C22: a seed the caller supplies in options is the seed of the variant:
\* generate is called with it and the row is persisted with it, also when
\* the variant is broken; a seed is synthesized only when the caller
\* supplied none.
C22_CallerSeedHonored ==
  \A p \in Tasks :
    Seeded(p) =>
      /\ loc[p].options # UNDEF => loc[p].variant_seed = loc[p].options
      /\ loc[p].options = UNDEF <=> loc[p].variant_seed \in RandomSeeds
      /\ (Called(p, "generate") /\ loc[p].variant # NoVariant) =>
            loc[p].variant.variant_seed = loc[p].variant_seed
      /\ Creating(p) => CreatedRow(p).variant_seed = loc[p].variant_seed

C22_Witness ==
  \E p \in Tasks :
    /\ Created(p)
    /\ loc[p].options \in CallerSeeds
    /\ CreatedRow(p).variant_seed = loc[p].options
    /\ CreatedRow(p).broken
    /\ CreatedRow(p).tx = NOCLIENT

\* C23: variant creation is all-or-nothing: until ensureVariant's commit
\* nothing it wrote is committed, and when a step of it fails (the lookups,
\* module resolution, generate, prepare, the variant insert, a CourseError
\* insert after the variant row was inserted) no variant row and no
\* CourseError row of the operation is left.
C23_VariantCreationAllOrNothing ==
  \A p \in Tasks :
    loc[p].op = "ensureVariant" =>
      /\ pc[p] # "done" => NothingCommitted(p)
      /\ (pc[p] = "done" /\ loc[p].cbErr # NOERR) =>
            /\ variants = loc[p].pre.variants
            /\ errors = loc[p].pre.errors
            /\ loc[p].cbValue = NULL
      /\ (pc[p] = "done" /\ loc[p].cbErr = NOERR /\ ~loc[p].hit) =>
            /\ Len(variants) = Len(loc[p].pre.variants) + 1
            /\ Len(errors) = Len(loc[p].pre.errors) + Len(loc[p].courseErrs)

C23_Witness ==
  \E p \in Tasks :
    /\ loc[p].op = "ensureVariant"
    /\ pc[p] = "done"
    /\ loc[p].variant_id # NULL
    /\ loc[p].errRows = 1
    /\ loc[p].cbErr = "db_error"
    /\ loc[p].pre.variants # <<>>
    /\ variants = loc[p].pre.variants
    /\ errors = loc[p].pre.errors

\* the row of table grading_jobs has no score, partial scores, feedback,
\* format errors or gradability
Ungraded(job) ==
  /\ job.score = UNDEF
  /\ job.partial_scores = UNDEF
  /\ job.feedback = UNDEF
  /\ job.format_errors = UNDEF
  /\ job.gradable = UNDEF

\* C24: for a question graded externally or manually the module's grade is
\* never invoked, grading records no CourseError row (the only rows an
\* operation adds are those of its save step, one per error parse returned),
\* and every grading job inserted has score, partial scores, feedback,
\* format errors and gradability unset.
C24_ExternalManualNotGraded ==
  question.grading_method \in {"External", "Manual"} =>
    /\ \A p \in Tasks :
         /\ ~Called(p, "grade")
         /\ loc[p].op = "gradeVariant" =>
              /\ Visible(errors, p) = loc[p].pre.errors
              /\ loc[p].errRows = 0
         /\ (loc[p].op = "saveAndGradeSubmission" /\ loc[p].phase = "grade"
               /\ pc[p] \notin {"endTransaction", "return", "done"}) =>
              Len(Visible(errors, p)) =
                Len(loc[p].pre.errors) + Len(module.parse.courseErrs)
         /\ (loc[p].phase = "grade" /\ pc[p] \in {"writeCourseErrs", "gradingJobsInsert"}) =>
              /\ loc[p].courseErrs = <<>>
              /\ loc[p].data = NoPluginData
    /\ \A i \in DOMAIN grading_jobs : Ungraded(grading_jobs[i])

C24_Witness ==
  \E p \in Tasks :
    /\ question.grading_method = "Manual"
    /\ loc[p].op = "saveAndGradeSubmission"
    /\ Graded(p)
    /\ OneJobAdded(p)
    /\ module.parse.courseErrs # <<>>
    /\ module.grade.data.score # UNDEF
    /\ Ungraded(Row(grading_jobs, loc[p].grading_job))
    /\ Len(errors) = Len(loc[p].pre.errors) + Len(module.parse.courseErrs)

\* C25: for a question graded internally, when grade returns at least one
\* fatal error every grading job inserted has gradable = false, whatever
\* grade returned for gradable.
C25_FatalGradeNotGradable ==
  (question.grading_method = "Internal" /\ AnyFatal(module.grade.courseErrs)) =>
    /\ \A i \in DOMAIN grading_jobs : grading_jobs[i].gradable = "false"
    /\ \A p \in Tasks :
         (Called(p, "grade") /\ loc[p].err = NOERR) => loc[p].data.gradable = "false"

C25_Witness ==
  \E p \in Tasks :
    /\ question.grading_method = "Internal"
    /\ AnyFatal(module.grade.courseErrs)
    /\ module.grade.data.gradable = "true"
    /\ Graded(p)
    /\ OneJobAdded(p)
    /\ Row(grading_jobs, loc[p].grading_job).gradable = "false"
    /\ Row(grading_jobs, loc[p].grading_job).score = "1.0"

\* the open variants bound to the slot of task p's call that are committed
OpenBound(table, slot) == {v \in Bound(Committed(table), slot) : v.open}

\* C26: ensureVariant for a slot creates a variant only when its own lookup
\* returned no row, and the lookup sees committed rows only: an open variant
\* bound to the slot beside the one a call created was committed after that
\* call began, by a call running concurrently with it. Two such calls can
\* both miss and both insert (C26_Witness).
C26_ConcurrentCallsBothInsert ==
  \A p \in Tasks :
    SlotCall(p) =>
      /\ loc[p].hit => /\ loc[p].found = {loc[p].variant_id}
                       /\ Owned(p) = {}
                       /\ loc[p].variant_id \in Ids(Committed(variants))
      /\ Creating(p) => loc[p].found = {}
      /\ Created(p) =>
           \A v \in OpenBound(variants, loc[p].instance_question_id) :
             v.id # loc[p].variant_id =>
               /\ v.id \notin Ids(loc[p].pre.variants)
               /\ Len(loc[p].pre.variants) < Len(Committed(variants)) - 1

C26_Witness ==
  \E p \in Tasks :
    /\ SlotCall(p)
    /\ Created(p)
    /\ loc[p].found = {}
    /\ loc[p].pre.variants = <<>>
    /\ Len(variants) = 2
    /\ \A i \in DOMAIN variants :
         /\ variants[i].tx = NOCLIENT
         /\ variants[i].open
         /\ variants[i].instance_question_id = loc[p].instance_question_id

\* the grading jobs task p's open transaction has written
JobsOf(p) == {grading_jobs[i] : i \in {j \in DOMAIN grading_jobs : grading_jobs[j].tx = p}}

\* C27: under every interleaving of saves and gradings of one variant, a
\* gradeVariant called with check_submission_id = s selects submission s or
\* none, every grading job it writes is owned by s, and when it succeeds the
\* job it reports is the committed job of s; no job of another submission,
\* older or newer, comes from it.
C27_CheckedGradingOnlyGradesChecked ==
  \A p \in Tasks :
    (loc[p].op = "gradeVariant" /\ loc[p].check_submission_id # NULL) =>
      /\ loc[p].selected \in {NULL, loc[p].check_submission_id}
      /\ \A job \in JobsOf(p) : job.submission_id = loc[p].check_submission_id
      /\ Cardinality(JobsOf(p)) <= 1
      /\ loc[p].selected = NULL => (JobsOf(p) = {} /\ loc[p].grading_job = NULL)
      /\ (pc[p] = "done" /\ loc[p].cbErr = NOERR /\ loc[p].grading_job # NULL) =>
           /\ loc[p].grading_job \in Ids(Committed(grading_jobs))
           /\ Row(grading_jobs, loc[p].grading_job).submission_id =
                loc[p].check_submission_id

C27_Witness ==
  \E p \in Tasks :
    /\ loc[p].op = "gradeVariant"
    /\ loc[p].check_submission_id = 1
    /\ Graded(p)
    /\ loc[p].grading_job \in Ids(Committed(grading_jobs))
    /\ Row(grading_jobs, loc[p].grading_job).submission_id = 1
    /\ MostRecent(Committed(submissions), loc[p].variant_arg) = 2

\* task p called gradeVariant without check_submission_id for a variant that
\* had a committed submission
UncheckedCall(p) ==
  /\ loc[p].op = "gradeVariant"
  /\ loc[p].check_submission_id = NULL
  /\ MostRecent(loc[p].pre.submissions, loc[p].variant_arg) # NULL

\* C28: gradeVariant without check_submission_id, on a variant with one or
\* more committed submissions, selects the most recent of them; the grading
\* job it inserts is owned by that submission and by no other, and a call
\* that succeeds has inserted exactly that one job.
C28_UncheckedGradingGradesMostRecent ==
  \A p \in Tasks :
    UncheckedCall(p) =>
      LET recent == MostRecent(loc[p].pre.submissions, loc[p].variant_arg) IN
      /\ loc[p].selected \in {NULL, recent}
      /\ \A job \in JobsOf(p) : job.submission_id = recent
      /\ (pc[p] \in {"getModule", "grade", "writeCourseErrs", "gradingJobsInsert"}) =>
           loc[p].selected = recent
      /\ (pc[p] = "done" /\ loc[p].cbErr = NOERR) =>
           /\ loc[p].selected = recent
           /\ OneJobAdded(p)
           /\ Row(grading_jobs, loc[p].grading_job).submission_id = recent

C28_Witness ==
  \E p \in Tasks :
    /\ UncheckedCall(p)
    /\ Graded(p)
    /\ OneJobAdded(p)
    /\ Len(loc[p].pre.submissions) = 2
    /\ \A i \in DOMAIN submissions : submissions[i].variant_id = loc[p].variant_arg
    /\ Row(grading_jobs, loc[p].grading_job).submission_id = 2

\* task p called saveSubmission or saveAndGradeSubmission
SaveCall(p) == loc[p].op \in {"saveSubmission", "saveAndGradeSubmission"}

\* C29: a call of saveSubmission or saveAndGradeSubmission that succeeds has
\* inserted exactly one submission row, for the variant it was called with,
\* and returns the id of that row; a call that fails leaves no submission
\* row and returns no id; no call ever holds more than one row.
C29_OneSubmissionPerSuccessfulSave ==
  \A p \in Tasks :
    SaveCall(p) =>
      /\ Len(Visible(submissions, p)) <= Len(loc[p].pre.submissions) + 1
      /\ (pc[p] = "done" /\ loc[p].cbErr = NOERR) =>
           /\ Len(submissions) = Len(loc[p].pre.submissions) + 1
           /\ SubSeq(submissions, 1, Len(loc[p].pre.submissions)) = loc[p].pre.submissions
           /\ submissions[Len(submissions)].id = loc[p].cbValue
           /\ submissions[Len(submissions)].tx = NOCLIENT
           /\ submissions[Len(submissions)].variant_id = loc[p].variant_arg
           /\ loc[p].cbValue \notin Ids(loc[p].pre.submissions)
      /\ (pc[p] = "done" /\ loc[p].cbErr # NOERR) =>
           /\ submissions = loc[p].pre.submissions
           /\ loc[p].cbValue = NULL

C29_Witness ==
  \E p \in Tasks :
    /\ loc[p].op = "saveAndGradeSubmission"
    /\ pc[p] = "done"
    /\ loc[p].cbErr # NOERR
    /\ loc[p].submission_id # NULL
    /\ loc[p].pre.submissions # <<>>
    /\ submissions = loc[p].pre.submissions
    /\ loc[p].cbValue = NULL

\* task p called ensureVariant with neither a question nor a slot
BothNull(p) ==
  /\ loc[p].op = "ensureVariant"
  /\ loc[p].question_id = NULL
  /\ loc[p].instance_question_id = NULL

\* a call with neither a question nor a slot fails: no plugin is invoked, no
\* variant row is written, and the caller gets the error
BothNullFails(p) ==
  BothNull(p) =>
    /\ loc[p].calls = <<>>
    /\ loc[p].lookup = UNDEF
    /\ loc[p].variant_id = NULL
    /\ Visible(variants, p) = loc[p].pre.variants
    /\ pc[p] \in {"beginTransaction", "selectQuestion", "endTransaction", "done"}
    /\ pc[p] = "endTransaction" => loc[p].err = "both_null"
    /\ pc[p] = "done" => (loc[p].cbErr # NOERR /\ variants = loc[p].pre.variants)

\* C30 as stated: the question is resolved via the slot whenever a slot is
\* given, and a call with neither a question nor a slot fails without
\* invoking a plugin or writing a variant row.
C30_ResolvedViaSlotWhenGiven ==
  \A p \in Tasks :
    loc[p].op = "ensureVariant" =>
      /\ (loc[p].instance_question_id # NULL /\ loc[p].lookup # UNDEF) =>
           loc[p].lookup = "instance_questions_select_question"
      /\ BothNullFails(p)

\* C30: ensureVariant resolves the question by question_id whenever one is
\* given, also when a slot is given with it, and via the slot only when
\* question_id is null; a call with neither fails with an error, invokes no
\* plugin and writes no variant row.
C30_ResolvedByQuestionIdElseSlot ==
  \A p \in Tasks :
    loc[p].op = "ensureVariant" =>
      /\ (loc[p].lookup # UNDEF /\ loc[p].question_id # NULL) =>
           /\ loc[p].lookup = "questions_select"
           /\ loc[p].question = loc[p].question_id
      /\ (loc[p].lookup # UNDEF /\ loc[p].question_id = NULL) =>
           /\ loc[p].instance_question_id # NULL
           /\ loc[p].lookup = "instance_questions_select_question"
           /\ loc[p].question = SlotQuestion(loc[p].instance_question_id)
      /\ Creating(p) => loc[p].lookup # UNDEF
      /\ BothNullFails(p)

C30_Witness ==
  \E p \in Tasks :
    /\ Created(p)
    /\ loc[p].question_id # NULL
    /\ loc[p].instance_question_id # NULL
    /\ loc[p].lookup = "questions_select"
    /\ CreatedRow(p).instance_question_id = loc[p].instance_question_id
    /\ CreatedRow(p).tx = NOCLIENT

\* the module returns no course error from any capability, parse echoes the
\* answer with gradable = true, grade scores it with gradable = true, and
\* grading is Internal
CleanInternal ==
  /\ module.generate.courseErrs = <<>>
  /\ module.prepare.courseErrs = <<>>
  /\ module.parse = ParseEcho
  /\ module.grade = GradeScored
  /\ question.grading_method = "Internal"

\* task p's gradeVariant has succeeded on a store that held one floating
\* variant, one submission of it and nothing else: the store an ensureVariant
\* and a saveSubmission leave when they start from the empty store
EndToEnd(p) ==
  /\ loc[p].op = "gradeVariant"
  /\ Graded(p)
  /\ Len(loc[p].pre.variants) = 1
  /\ loc[p].pre.variants[1].instance_question_id = NULL
  /\ Len(loc[p].pre.submissions) = 1
  /\ loc[p].pre.grading_jobs = <<>>

\* C31: from the empty store, ensureVariant for a floating variant with a
\* module that returns no errors, then saveSubmission, then gradeVariant
\* with Internal grading leave one variant (not broken, with the params
\* prepare produced), one submission (gradable, holding the caller's
\* answer), one grading job of that submission with the score grade
\* returned, no CourseError row and no message in the grading queue.
C31_EndToEndCleanSequence ==
  CleanInternal =>
    /\ errors = <<>>
    /\ queue = <<>>
    /\ \A p \in Tasks :
         EndToEnd(p) =>
           /\ Len(variants) = 1
           /\ variants[1].broken = FALSE
           /\ variants[1].params = module.prepare.data.params
           /\ variants[1].tx = NOCLIENT
           /\ Len(submissions) = 1
           /\ submissions[1].gradable = "true"
           /\ submissions[1].variant_id = variants[1].id
           /\ submissions[1].tx = NOCLIENT
           /\ Len(grading_jobs) = 1
           /\ grading_jobs[1].score = module.grade.data.score
           /\ grading_jobs[1].gradable = "true"
           /\ grading_jobs[1].submission_id = submissions[1].id
           /\ grading_jobs[1].tx = NOCLIENT

C31_Witness ==
  \E p \in Tasks :
    /\ CleanInternal
    /\ EndToEnd(p)
    /\ Len(variants) = 1 /\ Len(submissions) = 1 /\ Len(grading_jobs) = 1
    /\ grading_jobs[1].score = "1.0"
    /\ submissions[1].submitted_answer = "a1"
    /\ errors = <<>>
    /\ queue = <<>>

RECURSIVE ErrorsOf(_)
\* the number of course errors the capabilities in list calls returned
ErrorsOf(calls) ==
  IF calls = <<>> THEN 0
  ELSE Len(module[calls[1]].courseErrs) + ErrorsOf(Tail(calls))

\* C32: within an operation's transaction the rows are written in order:
\* the submission row only once every CourseError row of parse is written,
\* the grading job row only once every CourseError row of grade is written,
\* a message to the grading queue only with the grading job inserted, and
\* the CourseError rows of a variant's creation only once the variant row
\* is inserted.
C32_PersistenceOrder ==
  \A p \in Tasks :
    (pc[p] \notin {"idle", "done"}) =>
      /\ loc[p].op = "ensureVariant" =>
           /\ NewErrors(p) # <<>> => loc[p].variant_id \in Ids(Visible(variants, p))
           /\ (pc[p] = "variantsInsert") => NewErrors(p) = <<>>
      /\ loc[p].op \in {"saveSubmission", "saveAndGradeSubmission"} =>
           /\ loc[p].submission_id # NULL =>
                /\ Called(p, "parse")
                /\ Len(NewErrors(p)) >= Len(module.parse.courseErrs)
           /\ (pc[p] = "writeCourseErrs" /\ loc[p].phase = "save") =>
                loc[p].submission_id = NULL
      /\ loc[p].phase = "grade" =>
           /\ loc[p].grading_job # NULL =>
                /\ Len(NewErrors(p)) = ErrorsOf(loc[p].calls)
                /\ NewErrors(p) = ExpectedErrors(loc[p].calls, SinkVariant(p))
           /\ (pc[p] = "writeCourseErrs") => loc[p].grading_job = NULL
           /\ loc[p].sent # <<>> => loc[p].sent = <<loc[p].grading_job>>
           /\ loc[p].grading_job = NULL => queue = loc[p].pre.queue

C32_Witness ==
  \E p \in Tasks :
    /\ loc[p].op = "saveAndGradeSubmission"
    /\ pc[p] = "endTransaction"
    /\ loc[p].err = NOERR
    /\ question.grading_method = "External"
    /\ module.parse.courseErrs # <<>>
    /\ loc[p].submission_id # NULL
    /\ loc[p].grading_job # NULL
    /\ loc[p].sent = <<loc[p].grading_job>>
    /\ Len(NewErrors(p)) = Len(module.parse.courseErrs)

\* every committed row of the table is still there, unchanged, after the step
RowsKept(table, table2) ==
  \A i \in DOMAIN table :
    table[i].tx = NOCLIENT => (i \in DOMAIN table2 /\ table2[i] = table[i])

\* C33: no step of ensureVariant, saveSubmission, gradeVariant or
\* saveAndGradeSubmission changes or removes a committed variant row or a
\* committed submission row: the operations only add rows.
C33_NoRowUpdatedInPlace ==
  [][RowsKept(variants, variants') /\ RowsKept(submissions, submissions')]_vars

C33_Witness ==
  \E p \in Tasks :
    /\ loc[p].op = "gradeVariant"
    /\ Graded(p)
    /\ OneJobAdded(p)
    /\ loc[p].pre.submissions # <<>>
    /\ submissions = loc[p].pre.submissions
    /\ variants = loc[p].pre.variants
    /\ Len(variants) = 2

\* the number of rows of table errors with the student message
CountErrors(table, student_message) ==
  Cardinality({i \in DOMAIN table : table[i].student_message = student_message})

\* the number of CourseError rows the creation of one variant writes
CreationErrors ==
  IF AnyFatal(module.generate.courseErrs) THEN Len(module.generate.courseErrs)
  ELSE Len(module.generate.courseErrs) + Len(module.prepare.courseErrs)

\* the number of CourseError rows one grading writes
GradingErrors ==
  IF question.grading_method = "Internal" THEN Len(module.grade.courseErrs) ELSE 0

\* the variants of the committed store that an operation created
CreatedVariants(table) ==
  {i \in DOMAIN table : table[i] # ExistingVariant(table[i].id)}

\* C34: in every reachable state, under every interleaving of the four
\* operations, the committed store (what a concurrent reader sees) holds
\* the CourseError rows of an operation only together with the row that
\* operation wrote: per created variant the rows of its creation, per
\* submission the rows of its parse, per grading job the rows of its grade,
\* each for a committed variant; a task outside a transaction owns no
\* pending row, and an operation that failed has left no row.
C34_NoHalfAppliedStateVisible ==
  LET cv == Committed(variants)
      cs == Committed(submissions)
      cj == Committed(grading_jobs)
      ce == Committed(errors)
  IN /\ CountErrors(ce, "Error creating question variant") =
          CreationErrors * Cardinality(CreatedVariants(cv))
     /\ CountErrors(ce, "Error parsing submission") =
          Len(module.parse.courseErrs) * Len(cs)
     /\ CountErrors(ce, "Error grading submission") = GradingErrors * Len(cj)
     /\ \A i \in DOMAIN ce : ce[i].variant_id \in Ids(cv)
     /\ \A i \in DOMAIN cs : cs[i].variant_id \in Ids(cv)
     /\ \A i \in DOMAIN cj : cj[i].submission_id \in Ids(cs)
     /\ \A p \in Tasks : ~InTransaction(p) => Owned(p) = {}

C34_Witness ==
  \E p, q \in Tasks :
    /\ p # q
    /\ loc[p].op = "saveAndGradeSubmission"
    /\ pc[p] = "done"
    /\ loc[p].cbErr = NOERR
    /\ loc[p].errRows = 4
    /\ loc[q].op = "ensureVariant"
    /\ pc[q] = "done"
    /\ loc[q].cbErr # NOERR
    /\ loc[q].variant_id # NULL
    /\ loc[q].errRows > 0
    /\ Len(Committed(errors)) = 4
    /\ Len(Committed(variants)) = 1

\* task p's getAndRenderVariant has called back without an error
Rendered(p) ==
  /\ loc[p].outer = "getAndRenderVariant"
  /\ pc[p] = "finished"
  /\ loc[p].outerCbErr = NOERR

\* the CourseError rows the render of task p's page is to leave
RenderErrors(p) == ExpectedErrors(<<"render">>, loc[p].variant_arg)

\* the last n entries of the rows, without their ids and transactions
LastErrors(rows, n) ==
  [i \in 1..n |->
     LET r == rows[Len(rows) - n + i]
     IN [ variant_id |-> r.variant_id,
          student_message |-> r.student_message,
          instructor_message |-> r.instructor_message,
          course_caused |-> r.course_caused ]]

PastBrokenFlags(p) ==
  /\ loc[p].outer = "getAndRenderVariant"
  /\ \/ pc[p] \in {"getEffectiveQuestionType", "getModule", "render",
                   "renderWriteCourseErrs", "renderReturn", "done", "selectErrors"}
     \/ Rendered(p)
  /\ loc[p].op # "ensureVariant"

\* C36: when the variant getAndRenderVariant selected is broken, the locals
\* it produces have showGradeButton = false and showSaveButton = false, for
\* every assessment type and every combination of open flags.
C36_BrokenVariantNotAnswerable ==
  \A p \in Tasks :
    (PastBrokenFlags(p) /\ loc[p].locals.variant[1].broken) =>
      /\ ~loc[p].locals.flags.showGradeButton
      /\ ~loc[p].locals.flags.showSaveButton

C36_Witness ==
  \E p \in Tasks :
    /\ Rendered(p)
    /\ loc[p].locals.assessment = "none"
    /\ loc[p].locals.variant[1].broken
    /\ loc[p].locals.variant[1].open
    /\ ~loc[p].locals.flags.showGradeButton
    /\ ~loc[p].locals.flags.showSaveButton
    /\ loc[p].locals.flags.allowAnswerEditing
    /\ loc[p].locals.flags.showNewVariantButton

\* the third function of getAndRenderVariant's series has run for task p
PastClosedFlags(p) ==
  \/ PastBrokenFlags(p)
  \/ loc[p].outer = "getAndRenderVariant" /\ pc[p] = "selectSubmissions"

\* the variant is not open, or the instance question exists and is not
\* open, or the assessment instance exists and is not open
Closed(locals) ==
  \/ ~locals.variant[1].open
  \/ locals.instance_question = "closed"
  \/ locals.assessment_instance = "closed"

\* C38: when the variant is not open, or the instance question exists and is
\* not open, or the assessment instance exists and is not open, the locals
\* getAndRenderVariant produces have showGradeButton, showSaveButton and
\* allowAnswerEditing all false; and showGradeButton is never true for an
\* Exam.
C38_ClosedNotAnswerable ==
  \A p \in Tasks :
    loc[p].outer = "getAndRenderVariant" =>
      /\ (PastClosedFlags(p) /\ Closed(loc[p].locals)) =>
           /\ ~loc[p].locals.flags.showGradeButton
           /\ ~loc[p].locals.flags.showSaveButton
           /\ ~loc[p].locals.flags.allowAnswerEditing
      /\ loc[p].locals.assessment = "Exam" => ~loc[p].locals.flags.showGradeButton

C38_Witness ==
  \E p \in Tasks :
    /\ Rendered(p)
    /\ loc[p].locals.assessment = "Homework"
    /\ loc[p].locals.variant[1].open
    /\ ~loc[p].locals.variant[1].broken
    /\ loc[p].locals.instance_question = "closed"
    /\ loc[p].locals.assessment_instance = "open"
    /\ ~loc[p].locals.flags.showGradeButton
    /\ ~loc[p].locals.flags.showSaveButton
    /\ ~loc[p].locals.flags.allowAnswerEditing
    /\ loc[p].locals.flags.tryAgainButton

\* the caller's callback of task p's operation has run at most once, not
\* before the operation's last step, and once when the operation is over
CalledBackOnce(p) ==
  /\ loc[p].cbCount <= 1
  /\ pc[p] \notin {"idle", "done"} => loc[p].cbCount = 0
  /\ pc[p] = "done" => loc[p].cbCount = 1

\* C37: every call of ensureVariant, saveSubmission, gradeVariant and
\* saveAndGradeSubmission invokes the caller's callback exactly once, on
\* every path of success and failure: never twice, and, as every database
\* call, plugin call and transaction begin and end invokes its own callback,
\* every call made does reach its callback.
C37_CallbackExactlyOnce ==
  /\ [](\A p \in Tasks : CalledBackOnce(p))
  /\ \A p \in Tasks :
       (pc[p] = "beginTransaction") ~> (pc[p] = "done" /\ loc[p].cbCount = 1)

C37_Witness ==
  \E p, q \in Tasks :
    /\ loc[p].op = "saveAndGradeSubmission"
    /\ pc[p] = "done"
    /\ loc[p].cbErr = "plugin_crash"
    /\ Called(p, "grade")
    /\ loc[p].cbCount = 1
    /\ loc[q].op = "ensureVariant"
    /\ pc[q] = "done"
    /\ loc[q].cbErr = NOERR
    /\ loc[q].cbCount = 1

\* the rank of a role that is set: a value that is no role ranks as Student
RankOf(role) ==
  CASE role = "Superuser" -> 0
    [] role = "Instructor" -> 1
    [] role = "TA" -> 2
    [] OTHER -> 3

\* C39: hasPermission grants by role rank only and is monotone in it: with
\* no userRole every operation is denied; a value that is no role is treated
\* as Student, and Student is denied every operation; overrideScore is
\* granted exactly to Superuser and Instructor; seeQID, changeUser,
\* changeMode and seeAvailDate exactly to Superuser, Instructor and TA; any
\* other operation is denied to every role; and an operation granted to a
\* role is granted to every role of a higher rank.
C39_PermissionByRoleRank ==
  /\ \A s \in Sessions :
       LET call == app[s].call IN
       call.made =>
         /\ call.role = "null" => ~call.permission
         /\ call.role \notin {"Superuser", "Instructor", "TA"} => ~call.permission
         /\ call.operation = "overrideScore" =>
              (call.permission <=> call.role \in {"Superuser", "Instructor"})
         /\ call.operation \in {"seeQID", "changeUser", "changeMode", "seeAvailDate"} =>
              (call.permission <=> call.role \in {"Superuser", "Instructor", "TA"})
         /\ call.operation = "deleteCourse" => ~call.permission
  /\ \A s, t \in Sessions :
       (/\ app[s].call.made /\ app[t].call.made
        /\ app[s].call.operation = app[t].call.operation
        /\ app[s].call.role # "null" /\ app[t].call.role # "null"
        /\ app[s].call.permission
        /\ RankOf(app[t].call.role) <= RankOf(app[s].call.role))
       => app[t].call.permission

C39_Witness ==
  \E s, t \in Sessions :
    /\ app[s].call = [made |-> TRUE, role |-> "Professor", operation |-> "seeQID",
                      permission |-> FALSE]
    /\ app[t].call = [made |-> TRUE, role |-> "TA", operation |-> "seeQID",
                      permission |-> TRUE]

====
